---- MODULE Spec2Model ----
(***************************************************************************)
(* Sovereign RMM: the server control plane (src/backend/main.py) and the   *)
(* Windows agent's execution engine (src/agent/windows_agent.py).          *)
(*                                                                         *)
(* Time is counted in minutes on the server side (the period of the        *)
(* offline-detection loop and of the task scheduler loop is 60 s) and in   *)
(* runner ticks on the agent side.  Each action is one run of a handler    *)
(* between two suspension points (await) of the asyncio event loop.        *)
(***************************************************************************)
EXTENDS Integers, Sequences, FiniteSets, TLC

\* ------------------------------------------------------------------ bounds
MaxTime == 7
MaxSends == 2
MaxSchedTicks == 2

\* random.randint(0, MaxRandom) stands for random.randint(0, 9999)
MaxRandom == 1
\* the rows of the storage table
MaxStorage == 3
\* the dashboards that connect; the registry is a fresh dict, which holds five
\* entries before it is resized
MaxDashboards == 3
\* ------------------------------------------------------- program constants
\* timedelta(minutes=5) in offline_detection_loop
OfflineMinutes == 5
\* asyncio.sleep(60) in offline_detection_loop, in minutes
TickPeriod == 1
\* 3600 s and 86400 s of should_run_task, in minutes
HourMinutes == 60
DayMinutes == 1440

None == "none"
\* a NULL timestamp column
NoTime == 0 - 1
AGENT_TOKEN == "secret"
Tokens == {AGENT_TOKEN, "wrong"}
Devices == {"d1", "d2"}
Conns == {"c1", "c2"}
ServerTasks == <<"t1", "t2", "t3">>
TaskIds == {ServerTasks[i] : i \in 1..Len(ServerTasks)}
\* Task rows (models.Task): device_id is fixed at creation
TaskDevice(t) == IF t = "t3" THEN "d2" ELSE "d1"
Schedules == {"once", "hourly", "daily", "manual"}
FirstTypes == {"register", "heartbeat"}
\* the devices whose agents open channels while the task scheduler is studied
SchedDevices == {"d1"}

VARIABLES
    now,               \* datetime.utcnow(), minutes since server start
    tickDue,           \* the offline-detection loop's sleep(60) has elapsed
    agent_connections, \* main.agent_connections: device_id -> websocket
    conn_pc,           \* position of each websocket_agent handler
    conn_token,        \* the token header the channel presented
    conn_dev,          \* the handler's local device_id
    status,            \* Device.status
    last_seen,         \* Device.last_seen
    schedule,          \* Task.schedule
    task_last_run,     \* Task.last_run
    sched_idx,         \* task_scheduler_loop: index in `tasks` (0 = sleeping)
    sched_tasks,       \* task_scheduler_loop: last_run of the rows it loaded
    sent               \* execute_task envelopes sent, per task

\* the rows and the components the server keeps besides
VARIABLES
    task_result,       \* TaskResult.status of the latest row of each task
    disk_info,         \* StorageManager.scan_drive: what get_disk_info returned
    storage_type,      \* StorageManager.scan_drive: the type of the drive scanned
    asset_tags,        \* Storage.asset_tag of the rows of the storage table
    gen,               \* generate_asset_tag: its position, prefix, date_part and tag
    dashboard_connections, \* main.dashboard_connections: the dict's entries, in
                       \* insertion order; a deleted entry leaves its slot empty
    bcast              \* broadcast_to_dashboards: the handler that called it and
                       \* the iterator over dashboard_connections.values()

NoRow == "no row"
\* no call of generate_asset_tag yet
NoCall == [pc |-> "idle", prefix |-> "", date_part |-> "", tag |-> <<"", "", <<>>>>]
storage_vars == <<disk_info, storage_type>>
tag_vars == <<asset_tags, gen>>
dash_vars == <<dashboard_connections, bcast>>
db_vars == <<task_result, storage_vars, tag_vars, dash_vars>>

server_vars == <<now, tickDue, agent_connections, conn_pc, conn_token,
                 conn_dev, status, last_seen, schedule, task_last_run,
                 sched_idx, sched_tasks, sent, db_vars>>


\* the agent (src/agent/windows_agent.py)
VARIABLES
    atime,          \* datetime.utcnow() on the agent, in runner periods
    store,          \* scheduled_tasks.json: the list load_tasks() returns
    tasks_file,     \* scheduled_tasks.json: "json" (parses) | "torn" (does not)
    active_ip,      \* state.json "active_ip" (None: key absent)
    last_ip_test,   \* state.json "last_ip_test": "" | "fresh" | "old" (> WEEK)
    reach_local,    \* the server answers on SERVER_IP_LOCAL
    reach_vpn,      \* the server answers on SERVER_IP_VPN
    ssid,           \* the SSID get_network_info() reports
    ws_pc,          \* ws_loop: "idle" (sleeping / starting), "connecting", "connected"
    server_ip,      \* ws_loop: the endpoint select_server_ip() returned
    ws_ref,         \* ws_ref[0]
    run_pc,         \* local_task_runner: "sleep" | "exec"
    run_tasks,      \* local_task_runner: what is left of `tasks`, from the task in execution
    run_ws,         \* the ws argument of the runner's execute_task call
    ev_pc,          \* event_task_watcher: "sleep" | "exec"
    ev_tasks,       \* event_task_watcher: what is left of `tasks`, from the task in execution
    ev_ws,          \* the ws argument of the watcher's execute_task call
    last_network,   \* event_task_watcher: last_network["ssid"]
    srv_cancelled,  \* tasks the server's task-active probe reports cancelled
    focus,          \* the task whose history the four variables below record
    delivered,      \* a task_result of the focus task went out on an open channel
    unsent,         \* an execution of the focus task ended with no task_result sent
    cancel_seen,    \* the receiver processed a cancel_task for the focus task
    probe_seen      \* the runner's probe found the focus task cancelled

state_vars == <<active_ip, last_ip_test>>
env_vars == <<reach_local, reach_vpn, ssid, srv_cancelled>>
chan_vars == <<ws_pc, server_ip, ws_ref>>
run_vars == <<run_pc, run_tasks, run_ws>>
ev_vars == <<ev_pc, ev_tasks, ev_ws, last_network>>
hist_vars == <<focus, delivered, unsent, cancel_seen, probe_seen>>

\* the agent's network sample, notifications, inbound messages, heartbeat
\* pacing and the execution of a run_task
VARIABLES
    local_ip,       \* the primary IPv4 get_network_info() reports
    last_local_ip,  \* event_task_watcher: last_network["local_ip"]
    was_offline,    \* state.json "was_offline"
    toasts,         \* "Connection ... restored" notifications shown so far
    rx,             \* ws_loop.receive: the message `raw` the loop body last got
    replies,        \* the types of the messages sent in answer on the channel
    battery,        \* get_battery(): the level in tenths of a percent
    charging,       \* get_battery(): power_plugged
    policy,         \* the module's policy dict
    hb_sleep,       \* heartbeat: the argument of the sleep in progress
    proc,           \* execute_task of a run_task: the subprocess and its output
    result,         \* execute_task: the result dict it built last
    outbox,         \* execute_task: the messages of the task sent on the channel
    cron_frame      \* cron_next_run: its position, arguments, candidate and value

net_vars == <<local_ip, last_local_ip>>
note_vars == <<was_offline, toasts>>
msg_vars == <<rx, replies>>
pace_vars == <<battery, charging, policy, hb_sleep>>
exec_vars == <<proc, result, outbox, cron_frame>>
io_vars == <<net_vars, note_vars, msg_vars, pace_vars, exec_vars>>

agent_vars == <<atime, store, tasks_file, state_vars, env_vars, chan_vars, run_vars,
                ev_vars, hist_vars, io_vars>>

vars == <<server_vars, agent_vars>>


\* ---------------------------------------------------------------- text
\* a str is the sequence of its characters; NoText is None
NoText == <<"None">>
LowerCase == <<"a", "b", "c", "d", "e", "f", "g", "h", "i", "j", "k", "l", "m", "n", "o", "p", "q", "r", "s", "t", "u", "v", "w", "x", "y", "z">>
UpperCase == <<"A", "B", "C", "D", "E", "F", "G", "H", "I", "J", "K", "L", "M", "N", "O", "P", "Q", "R", "S", "T", "U", "V", "W", "X", "Y", "Z">>

\* bool(s) of an optional str
truthy(s) == s # NoText /\ s # <<>>

\* str.lower() and str.upper()
lower(s) ==
    [i \in 1..Len(s) |->
        IF \E k \in 1..Len(UpperCase) : UpperCase[k] = s[i]
          THEN LowerCase[CHOOSE k \in 1..Len(UpperCase) : UpperCase[k] = s[i]]
          ELSE s[i]]
upper(s) ==
    [i \in 1..Len(s) |->
        IF \E k \in 1..Len(LowerCase) : LowerCase[k] = s[i]
          THEN UpperCase[CHOOSE k \in 1..Len(LowerCase) : LowerCase[k] = s[i]]
          ELSE s[i]]

\* sub in s
occurs_in(sub, s) ==
    \E i \in 0..(Len(s) - Len(sub)) : SubSeq(s, i + 1, i + Len(sub)) = sub

\* ------------------------------------------------------------ server: Init
\* the slot of a deleted entry of the dict
Deleted == 0
\* no broadcast is under way
NoBroadcast == [pc |-> "idle", by |-> None, di_used |-> 0, di_pos |-> 0, len |-> 0]
\* no TaskResult row yet
DbInit ==
    /\ task_result = [t \in TaskIds |-> NoRow]
    /\ disk_info = [media_type |-> NoText, interface_type |-> NoText, model |-> NoText]
    /\ storage_type = None
    /\ asset_tags = {}
    /\ gen = NoCall
    /\ dashboard_connections = <<>>
    /\ bcast = NoBroadcast

ServerInit ==
    /\ now = 0
    /\ tickDue = TRUE
    /\ agent_connections = [d \in Devices |-> None]
    /\ conn_pc = [c \in Conns |-> "closed"]
    /\ conn_token = [c \in Conns |-> None]
    /\ conn_dev = [c \in Conns |-> None]
    /\ status = [d \in Devices |-> "offline"]
    /\ last_seen = [d \in Devices |-> NoTime]
    /\ schedule = [t \in TaskIds |-> IF t = "t2" THEN "manual" ELSE "once"]
    /\ task_last_run = [t \in TaskIds |-> NoTime]
    /\ sched_idx = 0
    /\ sched_tasks = [t \in TaskIds |-> NoTime]
    /\ sent = [t \in TaskIds |-> 0]
    /\ DbInit

Registered(d) == agent_connections[d] # None

\* ------------------------------------------------- server: websocket_agent
\* token check and accept
Connect(c, tok) ==
    /\ UNCHANGED <<agent_vars, db_vars>>
    /\ conn_pc[c] = "closed"
    /\ conn_token' = [conn_token EXCEPT ![c] = tok]
    /\ conn_dev' = [conn_dev EXCEPT ![c] = None]
    /\ conn_pc' = [conn_pc EXCEPT ![c] = IF tok # AGENT_TOKEN THEN "closed" ELSE "accepted"]
    /\ UNCHANGED <<now, tickDue, agent_connections, status, last_seen,
                   schedule, task_last_run, sched_idx, sched_tasks, sent>>

\* data = await websocket.receive_json(); if data.get("type") == "register": ...
\* any other first message leaves the try block: finally with device_id = None
FirstMessage(c, type, d) ==
    /\ UNCHANGED <<agent_vars, db_vars>>
    /\ conn_pc[c] = "accepted"
    /\ IF type = "register"
       THEN /\ conn_dev' = [conn_dev EXCEPT ![c] = d]
            /\ agent_connections' = [agent_connections EXCEPT ![d] = c]
            /\ conn_pc' = [conn_pc EXCEPT ![c] = "reg_db"]
            /\ UNCHANGED conn_token
       ELSE /\ conn_pc' = [conn_pc EXCEPT ![c] = "closed"]
            /\ conn_token' = [conn_token EXCEPT ![c] = None]
            /\ UNCHANGED <<conn_dev, agent_connections>>
    /\ UNCHANGED <<now, tickDue, status, last_seen,
                   schedule, task_last_run, sched_idx, sched_tasks, sent>>

\* the database update of the register branch, then the receive loop
RegisterDb(c) ==
    /\ UNCHANGED <<agent_vars, db_vars>>
    /\ conn_pc[c] = "reg_db"
    /\ status' = [status EXCEPT ![conn_dev[c]] = "online"]
    /\ last_seen' = [last_seen EXCEPT ![conn_dev[c]] = now]
    /\ conn_pc' = [conn_pc EXCEPT ![c] = "loop"]
    /\ UNCHANGED <<now, tickDue, agent_connections, conn_token, conn_dev,
                   schedule, task_last_run, sched_idx, sched_tasks, sent>>

\* handle_heartbeat
handle_heartbeat(c) ==
    /\ UNCHANGED <<agent_vars, db_vars>>
    /\ conn_pc[c] = "loop"
    /\ last_seen' = [last_seen EXCEPT ![conn_dev[c]] = now]
    /\ UNCHANGED <<now, tickDue, agent_connections, conn_pc, conn_token,
                   conn_dev, status, schedule, task_last_run, sched_idx, sched_tasks, sent>>

\* the exit codes an execution reports: 0, a failing command, and the -1 of a
\* timeout or a spawn failure; NoCode: the message has no such key
NoCode == 0 - 9
Codes == {0, 1, 0 - 1}
\* data.get("status") of a message: None when the key is absent
Statuses == {None, "success", "failed"}

\* the agent's envelope {"type": "task_result", "data": result}: task_id and
\* exit_code are keys of the nested result, the message has no status key
agent_envelope(t, code) ==
    [task_id |-> None, status |-> None, exit_code |-> NoCode,
     data |-> [task_id |-> t, exit_code |-> code]]
\* a message that carries its keys at the top level
flat_message(t, st, code) ==
    [task_id |-> t, status |-> st, exit_code |-> code,
     data |-> [task_id |-> None, exit_code |-> NoCode]]
ResultMessages ==
    {agent_envelope(t, code) : t \in TaskIds, code \in Codes}
        \cup {flat_message(t, st, code) : t \in TaskIds, st \in Statuses, code \in Codes}

\* handle_task_result: the row is looked up by the message's top-level
\* task_id; status is copied from the message's top-level status key
handle_task_result(c, data) ==
    /\ UNCHANGED <<agent_vars, storage_vars, tag_vars, dash_vars>>
    /\ conn_pc[c] = "loop"
    /\ IF data.task_id \in TaskIds
          THEN /\ task_last_run' = [task_last_run EXCEPT ![data.task_id] = now]
               /\ task_result' = [task_result EXCEPT ![data.task_id] = data.status]
          ELSE UNCHANGED <<task_last_run, task_result>>
    /\ UNCHANGED <<now, tickDue, agent_connections, conn_pc, conn_token,
                   conn_dev, status, last_seen, schedule, sched_idx, sched_tasks, sent>>

\* handle_agent_message dispatches the result of a task the scheduler has sent
ResultOfSent(c, t) ==
    /\ sent[t] > 0
    /\ handle_task_result(c, flat_message(t, None, 0))

\* WebSocketDisconnect or error: the finally block up to its first await
Disconnect(c) ==
    /\ UNCHANGED <<agent_vars, db_vars>>
    /\ conn_pc[c] \in {"accepted", "reg_db", "loop"}
    /\ IF conn_dev[c] # None /\ Registered(conn_dev[c])
       THEN /\ agent_connections' = [agent_connections EXCEPT ![conn_dev[c]] = None]
            /\ conn_pc' = [conn_pc EXCEPT ![c] = "fin_db"]
            /\ UNCHANGED <<conn_token, conn_dev>>
       ELSE /\ conn_pc' = [conn_pc EXCEPT ![c] = "closed"]
            /\ conn_token' = [conn_token EXCEPT ![c] = None]
            /\ conn_dev' = [conn_dev EXCEPT ![c] = None]
            /\ UNCHANGED agent_connections
    /\ UNCHANGED <<now, tickDue, status, last_seen,
                   schedule, task_last_run, sched_idx, sched_tasks, sent>>

\* the finally block's database update: device.status = "offline"
FinallyDb(c) ==
    /\ UNCHANGED <<agent_vars, db_vars>>
    /\ conn_pc[c] = "fin_db"
    /\ status' = [status EXCEPT ![conn_dev[c]] = "offline"]
    /\ conn_pc' = [conn_pc EXCEPT ![c] = "closed"]
    /\ conn_token' = [conn_token EXCEPT ![c] = None]
    /\ conn_dev' = [conn_dev EXCEPT ![c] = None]
    /\ UNCHANGED <<now, tickDue, agent_connections,
                   last_seen, schedule, task_last_run, sched_idx, sched_tasks, sent>>

\* handle_agent_message -> handle_storage_detected: storage_data is
\* data.get("storage").  With no "storage" key storage_data.get raises, the
\* error leaves the `while True` of websocket_agent and the finally block runs;
\* with a storage object only Storage rows change
StorageData == {None, "disk"}
handle_storage_detected(c, storage_data) ==
    /\ conn_pc[c] = "loop"
    /\ IF storage_data = None
       THEN Disconnect(c)
       ELSE UNCHANGED vars

\* ------------------------------------------ server: offline_detection_loop
\* Device.last_seen < threshold (a NULL last_seen never compares true)
StaleLate(ls, t) == ls # NoTime /\ ls < t - OfflineMinutes - TickPeriod
Stale(ls, t) == ls # NoTime /\ ls < t - OfflineMinutes

offline_detection_loop ==
    /\ UNCHANGED <<agent_vars, db_vars>>
    /\ tickDue
    /\ tickDue' = FALSE
    /\ status' = [d \in Devices |->
                    IF Stale(last_seen[d], now) THEN "offline" ELSE status[d]]
    /\ UNCHANGED <<now, agent_connections, conn_pc, conn_token, conn_dev,
                   last_seen, schedule, task_last_run, sched_idx, sched_tasks, sent>>

\* one minute passes once the detector has run for the current minute
AdvanceTime ==
    /\ UNCHANGED <<agent_vars, db_vars>>
    /\ ~tickDue
    /\ now < MaxTime
    /\ now' = now + TickPeriod
    /\ tickDue' = TRUE
    /\ UNCHANGED <<agent_connections, conn_pc, conn_token, conn_dev,
                   status, last_seen, schedule, task_last_run, sched_idx, sched_tasks, sent>>

\* --------------------------------------------- server: task_scheduler_loop
should_run_task(sch, last_run, t) ==
    IF last_run = NoTime THEN TRUE
    ELSE IF sch = "hourly" THEN t - last_run > HourMinutes
    ELSE IF sch = "daily" THEN t - last_run > DayMinutes
    ELSE FALSE

\* select(Task).where(enabled, schedule != "manual"): the rows as loaded
Selected(t) == schedule[t] # "manual"

SchedulerLoad ==
    /\ UNCHANGED <<agent_vars, db_vars>>
    /\ sched_idx = 0
    /\ sched_tasks' = [t \in TaskIds |-> IF Selected(t) THEN task_last_run[t] ELSE NoTime]
    /\ sched_idx' = 1
    /\ UNCHANGED <<now, tickDue, agent_connections, conn_pc, conn_token,
                   conn_dev, status, last_seen, schedule, task_last_run, sent>>

\* one iteration of `for task in tasks`; send_json may raise, which ends the
\* tick; after the last row the loop sleeps 60 s
SchedulerStep(ok) ==
    /\ UNCHANGED <<agent_vars, db_vars>>
    /\ sched_idx > 0
    /\ IF sched_idx > Len(ServerTasks)
       THEN /\ ok
            /\ now < MaxSchedTicks
            /\ now' = now + TickPeriod
            /\ sched_idx' = 0
            /\ sched_tasks' = [t \in TaskIds |-> NoTime]
            /\ UNCHANGED sent
       ELSE LET t == ServerTasks[sched_idx] IN
            IF /\ Selected(t)
               /\ should_run_task(schedule[t], sched_tasks[t], now)
               /\ Registered(TaskDevice(t))
            THEN IF ok
                 THEN /\ sent[t] < MaxSends
                      /\ sent' = [sent EXCEPT ![t] = @ + 1]
                      /\ sched_idx' = sched_idx + 1
                      /\ UNCHANGED <<now, sched_tasks>>
                 ELSE /\ now < MaxSchedTicks
                      /\ now' = now + TickPeriod
                      /\ sched_idx' = 0
                      /\ sched_tasks' = [u \in TaskIds |-> NoTime]
                      /\ UNCHANGED sent
            ELSE /\ ok
                 /\ sched_idx' = sched_idx + 1
                 /\ UNCHANGED <<now, sched_tasks, sent>>
    /\ UNCHANGED <<tickDue, agent_connections, conn_pc, conn_token,
                   conn_dev, status, last_seen, schedule, task_last_run>>


\* ==================================================== server: StorageManager
\* src/src/server/storage_manager.py
USB == <<"U", "S", "B">>
SsdKeywords == {<<"s", "s", "d">>,
                <<"s", "o", "l", "i", "d", " ", "s", "t", "a", "t", "e">>,
                <<"n", "v", "m", "e">>}
FixedHardDisk == <<"F", "i", "x", "e", "d", " ", "h", "a", "r", "d", " ", "d", "i", "s", "k">>
RemovableMedia == <<"R", "e", "m", "o", "v", "a", "b", "l", "e", " ", "M", "e", "d", "i", "a">>

\* the MediaType, InterfaceType and Model get_disk_info may return (None when
\* the query fails)
MediaTypes ==
    {NoText, <<>>,
     \* Fixed hard disk media
     <<"F", "i", "x", "e", "d", " ", "h", "a", "r", "d", " ", "d", "i", "s", "k", " ", "m", "e", "d", "i", "a">>,
     \* Removable Media
     <<"R", "e", "m", "o", "v", "a", "b", "l", "e", " ", "M", "e", "d", "i", "a">>,
     \* External hard disk media
     <<"E", "x", "t", "e", "r", "n", "a", "l", " ", "h", "a", "r", "d", " ", "d", "i", "s", "k", " ", "m", "e", "d", "i", "a">>,
     \* removable media
     <<"r", "e", "m", "o", "v", "a", "b", "l", "e", " ", "m", "e", "d", "i", "a">>,
     \* Fixed hard disk, Removable Media
     <<"F", "i", "x", "e", "d", " ", "h", "a", "r", "d", " ", "d", "i", "s", "k", ",", " ", "R", "e", "m", "o", "v", "a", "b", "l", "e", " ", "M", "e", "d", "i", "a">>}
InterfaceTypes ==
    {NoText, <<>>,
     \* USB
     <<"U", "S", "B">>,
     \* usb
     <<"u", "s", "b">>,
     \* SATA
     <<"S", "A", "T", "A">>,
     \* SCSI
     <<"S", "C", "S", "I">>}
Models ==
    {NoText,
     \* Samsung SSD 870
     <<"S", "a", "m", "s", "u", "n", "g", " ", "S", "S", "D", " ", "8", "7", "0">>,
     \* WD Black NVMe
     <<"W", "D", " ", "B", "l", "a", "c", "k", " ", "N", "V", "M", "e">>,
     \* Solid State Drive
     <<"S", "o", "l", "i", "d", " ", "S", "t", "a", "t", "e", " ", "D", "r", "i", "v", "e">>,
     \* Kingston DataTraveler
     <<"K", "i", "n", "g", "s", "t", "o", "n", " ", "D", "a", "t", "a", "T", "r", "a", "v", "e", "l", "e", "r">>,
     \* WD Blue
     <<"W", "D", " ", "B", "l", "u", "e">>}

\* a classifier that looks at the media type before the model
storage_type_media_first(media_type, interface_type, model) ==
    LET model_lower == IF truthy(model) THEN lower(model) ELSE <<>>
    IN  IF truthy(interface_type) /\ occurs_in(USB, upper(interface_type)) THEN "usb"
        ELSE IF truthy(media_type) /\ occurs_in(FixedHardDisk, media_type) THEN "hdd"
        ELSE IF truthy(media_type) /\ occurs_in(RemovableMedia, media_type) THEN "usb"
        ELSE IF \E kw \in SsdKeywords : occurs_in(kw, model_lower) THEN "ssd"
        ELSE "hdd"

determine_storage_type(media_type, interface_type, model) ==
    LET model_lower == IF truthy(model) THEN lower(model) ELSE <<>>
    IN  IF truthy(interface_type) /\ occurs_in(USB, upper(interface_type)) THEN "usb"
        ELSE IF \E kw \in SsdKeywords : occurs_in(kw, model_lower) THEN "ssd"
        ELSE IF truthy(media_type) /\ occurs_in(FixedHardDisk, media_type) THEN "hdd"
        ELSE IF truthy(media_type) /\ occurs_in(RemovableMedia, media_type) THEN "usb"
        ELSE "hdd"

\* scan_drive up to the classification of the drive
scan_drive(mt, it, mo) ==
    /\ UNCHANGED agent_vars
    /\ disk_info' = [media_type |-> mt, interface_type |-> it, model |-> mo]
    /\ storage_type' = determine_storage_type(mt, it, mo)
    /\ UNCHANGED <<now, tickDue, agent_connections, conn_pc, conn_token,
                   conn_dev, status, last_seen, schedule, task_last_run,
                   sched_idx, sched_tasks, sent, task_result, tag_vars, dash_vars>>

\* ------------------------------------------ server: generate_asset_tag
\* datetime.now().strftime('%y%m') at the calls: the rows of one month
DateParts == {"2611"}
\* the storage types generate_asset_tag is called with
StorageTypes == {"hdd", "ssd", "usb", None}
\* random.randint(0, 9999), scaled to 0..MaxRandom
RandomValues == 0..MaxRandom

\* f"{n:04d}"
zero_pad4(n) ==
    <<(n \div 1000) % 10, (n \div 100) % 10, (n \div 10) % 10, n % 10>>

\* a uniqueness test that finds no row
tag_never_exists(tag, rows) == FALSE

\* Storage.query.filter_by(asset_tag=tag).first()
tag_exists(tag, rows) == tag \in rows

\* {'hdd': 'HD', 'ssd': 'SS', 'usb': 'USB'}.get(storage_type, 'STR')
tag_prefix(st) ==
    CASE st = "hdd" -> "HD" [] st = "ssd" -> "SS" [] st = "usb" -> "USB"
      [] OTHER -> "STR"

\* f"{prefix}-{date_part}-{random_part}": the three parts the dashes separate
make_tag(prefix, date_part, n) == <<prefix, date_part, zero_pad4(n)>>

\* generate_asset_tag up to the first test of the loop
generate_asset_tag(st, date_part, n) ==
    /\ UNCHANGED agent_vars
    /\ gen.pc # "loop"
    /\ Cardinality(asset_tags) < MaxStorage
    /\ gen' = [pc |-> "loop", prefix |-> tag_prefix(st), date_part |-> date_part,
               tag |-> make_tag(tag_prefix(st), date_part, n)]
    /\ UNCHANGED <<now, tickDue, agent_connections, conn_pc, conn_token,
                   conn_dev, status, last_seen, schedule, task_last_run,
                   sched_idx, sched_tasks, sent, task_result, storage_vars,
                   asset_tags, dash_vars>>

\* the loop finds a row with the tag and draws again
redraw(n) ==
    /\ UNCHANGED agent_vars
    /\ gen.pc = "loop"
    /\ tag_exists(gen.tag, asset_tags)
    /\ gen' = [gen EXCEPT !.tag = make_tag(gen.prefix, gen.date_part, n)]
    /\ UNCHANGED <<now, tickDue, agent_connections, conn_pc, conn_token,
                   conn_dev, status, last_seen, schedule, task_last_run,
                   sched_idx, sched_tasks, sent, task_result, storage_vars,
                   asset_tags, dash_vars>>

\* the loop finds no row with the tag: return tag
return_tag ==
    /\ UNCHANGED agent_vars
    /\ gen.pc = "loop"
    /\ ~tag_exists(gen.tag, asset_tags)
    /\ gen' = [gen EXCEPT !.pc = "returned"]
    /\ UNCHANGED <<now, tickDue, agent_connections, conn_pc, conn_token,
                   conn_dev, status, last_seen, schedule, task_last_run,
                   sched_idx, sched_tasks, sent, task_result, storage_vars,
                   asset_tags, dash_vars>>

\* scan_drive adds the new Storage row with the tag and commits
add_storage ==
    /\ UNCHANGED agent_vars
    /\ gen.pc = "returned"
    /\ asset_tags' = asset_tags \cup {gen.tag}
    /\ gen' = [gen EXCEPT !.pc = "idle"]
    /\ UNCHANGED <<now, tickDue, agent_connections, conn_pc, conn_token,
                   conn_dev, status, last_seen, schedule, task_last_run,
                   sched_idx, sched_tasks, sent, task_result, storage_vars, dash_vars>>


\* ==================================================================== agent
\* src/agent/windows_agent.py.  The agent clock counts periods of the local
\* task runner (asyncio.sleep(30)).

\* --------------------------------------------------------- agent: bounds
MaxATime == 1
\* the reconnect notifications counted
MaxToasts == 2
\* the result keeps 65535 characters of stdout and 16383 of stderr: scaled
StdoutLimit == 3
StderrLimit == 2
\* the most a subprocess writes to each pipe
MaxStdout == 4
MaxStderr == 3
\* the last instant of the clock the trigger evaluator is applied at
MaxNow == 5
\* the longest interval_seconds, in runner periods
MaxInterval == 2
\* the calendar of the agent clock: minutes in an hour, hours in a day, days
\* in a week (datetime.weekday() of instant 0 is 0)
MinutesPerHour == 2
HoursPerDay == 2
DaysPerWeek == 2
\* timedelta(days=1)
DayTicks == HoursPerDay * MinutesPerHour

\* get_battery() returns (None, False) when the machine has no battery
NoLevel == 0 - 1
\* the policy dict of the module, the pacing keys
PolicyKeys == {"plugged", "100_80", "79_50", "49_20", "19_10", "9_0"}
DefaultPolicy ==
    [k \in PolicyKeys |->
        CASE k = "plugged" -> 30 [] k = "100_80" -> 60 [] k = "79_50" -> 180
          [] k = "49_20" -> 300 [] k = "19_10" -> 600 [] OTHER -> 900]

SERVER_IP_LOCAL == "local"
SERVER_IP_VPN == "vpn"
\* the task records the server hands out (check-in snapshot, schedule_task)
AgentTaskIds == <<"intv1", "once1", "evt1", "cron1">>
AgentTasks == {AgentTaskIds[i] : i \in 1..Len(AgentTaskIds)}
\* the snapshot cached by an agent that stays connected
CachedIds == <<"intv1", "once1", "evt1">>
\* the snapshot cached by an agent that loses the server
OfflineIds == <<"cron1", "once1">>
TriggerOf(id) == CASE id = "once1" -> "once" [] id = "intv1" -> "interval"
                   [] id = "cron1" -> "cron" [] id = "now1" -> "now"
                   [] id = "bad1" -> "once" [] OTHER -> "event"
\* a timestamp datetime.fromisoformat() does not parse
BadTime == 0 - 3
\* cron_expression is the list expr.strip().split() gives: cron1 fires at
\* minute 1 of hour 0 of every day
Payload(id) ==
    [task_id |-> id, trigger_type |-> TriggerOf(id),
     scheduled_at |-> IF id = "bad1" THEN BadTime
                      ELSE IF TriggerOf(id) = "once" THEN 1 ELSE NoTime,
     interval_seconds |-> IF TriggerOf(id) = "interval" THEN 1 ELSE NoTime,
     cron_expression |-> IF TriggerOf(id) = "cron"
                         THEN <<"1", "0", "*", "*", "*">> ELSE <<>>,
     event_trigger |-> IF TriggerOf(id) = "event" THEN "network_change" ELSE None,
     cancelled |-> FALSE, last_run |-> NoTime]
TaskList(ids) == [i \in 1..Len(ids) |-> Payload(ids[i])]

\* ---------------------------------------------------- agent: task storage
remove_task(st, id) == SelectSeq(st, LAMBDA r : r.task_id # id)

\* an append that leaves the old record of the task_id in place
append_task(st, task) == Append(st, task)
add_or_update_task(st, task) == Append(remove_task(st, task.task_id), task)

cancel_task_local(st, id) ==
    [k \in DOMAIN st |-> IF st[k].task_id = id
                           THEN [st[k] EXCEPT !.cancelled = TRUE] ELSE st[k]]

\* lines 430-434 of local_task_runner
record_last_run(st, id, t) ==
    [k \in DOMAIN st |-> IF st[k].task_id = id
                           THEN [st[k] EXCEPT !.last_run = t] ELSE st[k]]

InStore(st, id) == \E k \in DOMAIN st : st[k].task_id = id
Flagged(st, id) == \E k \in DOMAIN st : st[k].task_id = id /\ st[k].cancelled

\* ------------------------------------------------- agent: trigger evaluator
\* int(): the number a field denotes; ValueError for a field that is no
\* numeral
ValueError == 0 - 2
int(field) ==
    CASE field = "0" -> 0 [] field = "1" -> 1 [] field = "2" -> 2
      [] field = "3" -> 3 [] OTHER -> ValueError

\* datetime.weekday()
weekday(t) == (t \div DayTicks) % DaysPerWeek

\* a helper that answers with the current instant
cron_next_run_now(expr, t) == t

\* today at hour:minute, or tomorrow if that is not after now; then the first
\* day from there whose weekday is the target.  None (NoTime) when anything
\* in the try block raises: int() of a field that is no numeral, replace()
\* with a minute or hour out of range, and date overflow after the weekday
\* loop has run through every day without meeting a weekday out of range
cron_next_run(expr, t) ==
    IF Len(expr) < 5 THEN NoTime
    ELSE LET minute == int(expr[1])
             hour == int(expr[2])
         IN IF minute = ValueError \/ hour = ValueError THEN NoTime
            ELSE IF minute >= MinutesPerHour \/ hour >= HoursPerDay THEN NoTime
            ELSE LET today == (t \div DayTicks) * DayTicks
                                  + hour * MinutesPerHour + minute
                     candidate == IF today <= t THEN today + DayTicks ELSE today
                 IN IF expr[5] = "*" THEN candidate
                    ELSE LET target_wd == int(expr[5])
                         IN IF target_wd = ValueError THEN NoTime
                            ELSE IF target_wd >= DaysPerWeek THEN NoTime
                            ELSE candidate + DayTicks *
                                   ((target_wd + DaysPerWeek - weekday(candidate))
                                        % DaysPerWeek)

\* datetime.max: later than every day the weekday loop reaches from an
\* instant of the clock with a weekday of the week
MaxDate == MaxNow + (DaysPerWeek + 2) * DayTicks

\* a day that is not added
same_day(candidate) == candidate

\* candidate += timedelta(days=1)
next_day(candidate) == candidate + DayTicks

\* cron_next_run, step by step: the call up to the weekday loop
cron_call(expr) ==
    /\ UNCHANGED <<server_vars, tasks_file>>
    /\ cron_frame.pc # "loop"
    /\ LET minute == int(expr[1])
           hour == int(expr[2])
           today == (atime \div DayTicks) * DayTicks + hour * MinutesPerHour + minute
           candidate == IF today <= atime THEN today + DayTicks ELSE today
           returns(v, c) == [pc |-> "returned", expr |-> expr, candidate |-> c,
                             target_wd |-> NoTime, value |-> v]
       IN cron_frame' =
            IF Len(expr) < 5 THEN returns(NoTime, NoTime)
            ELSE IF minute = ValueError \/ hour = ValueError THEN returns(NoTime, NoTime)
            ELSE IF minute >= MinutesPerHour \/ hour >= HoursPerDay
              THEN returns(NoTime, NoTime)
            ELSE IF expr[5] = "*" THEN returns(candidate, candidate)
            ELSE IF int(expr[5]) = ValueError THEN returns(NoTime, candidate)
            ELSE [pc |-> "loop", expr |-> expr, candidate |-> candidate,
                  target_wd |-> int(expr[5]), value |-> NoTime]
    /\ UNCHANGED <<atime, store, state_vars, env_vars, chan_vars, run_vars,
                   ev_vars, hist_vars, net_vars, note_vars, msg_vars, pace_vars,
                   proc, result, outbox>>

\* one test of `while candidate.weekday() != target_wd` and, if it holds, one
\* addition of a day; the addition past datetime.max raises OverflowError and
\* the bare except returns None
cron_loop ==
    /\ UNCHANGED <<server_vars, tasks_file>>
    /\ cron_frame.pc = "loop"
    /\ cron_frame' =
          IF weekday(cron_frame.candidate) = cron_frame.target_wd
            THEN [cron_frame EXCEPT !.pc = "returned", !.value = cron_frame.candidate]
          ELSE IF next_day(cron_frame.candidate) > MaxDate
            THEN [cron_frame EXCEPT !.pc = "returned", !.value = NoTime]
          ELSE [cron_frame EXCEPT !.candidate = next_day(@)]
    /\ UNCHANGED <<atime, store, state_vars, env_vars, chan_vars, run_vars,
                   ev_vars, hist_vars, net_vars, note_vars, msg_vars, pace_vars,
                   proc, result, outbox>>

\* an evaluator that looks at neither last_run nor the cron fields
due_at_every_poll(task, t) ==
    CASE task.trigger_type = "once" ->
            task.scheduled_at # NoTime /\ t >= task.scheduled_at
      [] task.trigger_type = "event" -> FALSE
      [] OTHER -> TRUE

task_is_due(task, t) ==
    CASE task.trigger_type = "now" -> TRUE
      [] task.trigger_type = "once" ->
            task.scheduled_at # NoTime /\ t >= task.scheduled_at
      [] task.trigger_type = "interval" ->
            task.last_run = NoTime \/ t - task.last_run >= task.interval_seconds
      [] task.trigger_type = "cron" ->
            LET next_run == cron_next_run(task.cron_expression, t)
            IN /\ next_run # NoTime
               /\ IF task.last_run = NoTime THEN t >= next_run
                  ELSE t >= next_run /\ task.last_run < next_run
      [] OTHER -> FALSE

\* task_is_due raises: datetime.fromisoformat() meets a timestamp it cannot
\* parse
task_is_due_raises(task, t) ==
    CASE task.trigger_type = "once" -> task.scheduled_at = BadTime
      [] task.trigger_type = "interval" -> task.last_run = BadTime
      [] task.trigger_type = "cron" ->
            /\ cron_next_run(task.cron_expression, t) # NoTime
            /\ task.last_run = BadTime
      [] OTHER -> FALSE

\* ------------------------------------------------------ agent: endpoints
Reach(ip, rl, rv) == (ip = SERVER_IP_LOCAL /\ rl) \/ (ip = SERVER_IP_VPN /\ rv)

should_retest(test) == test # "fresh"

\* state_get("active_ip", SERVER_IP_LOCAL)
ProbeIp(aip) == IF aip = None THEN SERVER_IP_LOCAL ELSE aip

\* a probe that refuses when the server does not answer
FailClosed(id, aip, rl, rv, canc) ==
    Reach(ProbeIp(aip), rl, rv) /\ id \notin canc

\* check_task_still_active: False only on a 200 answer with cancelled=true
check_task_still_active(id, aip, rl, rv, canc) ==
    IF Reach(ProbeIp(aip), rl, rv) THEN id \notin canc ELSE TRUE

\* -------------------------------------------------- agent: local_task_runner
\* the body of `for task in tasks` up to the next await (execute_task) or the
\* end of the list: rest starts with the task to execute, <<>> if there is none.
\* An exception of task_is_due leaves the for loop for the except branch of the
\* while loop
RECURSIVE RunnerScan(_, _, _, _, _, _, _)
RunnerScan(tasks, st, t, aip, rl, rv, canc) ==
    IF tasks = <<>> THEN [rest |-> <<>>, store |-> st, probed |-> {}]
    ELSE LET task == Head(tasks) IN
         IF task_is_due_raises(task, t)
         THEN [rest |-> <<>>, store |-> st, probed |-> {}]
         ELSE IF ~task_is_due(task, t)
         THEN RunnerScan(Tail(tasks), st, t, aip, rl, rv, canc)
         ELSE IF /\ task.trigger_type \in {"once", "cron", "interval"}
                 /\ ~check_task_still_active(task.task_id, aip, rl, rv, canc)
              THEN LET r == RunnerScan(Tail(tasks), cancel_task_local(st, task.task_id),
                                       t, aip, rl, rv, canc)
                   IN [r EXCEPT !.probed = @ \cup {task.task_id}]
              ELSE [rest |-> tasks, store |-> st, probed |-> {}]

NotCancelled(st) == SelectSeq(st, LAMBDA r : ~r.cancelled)

RunnerApply(r) ==
    /\ store' = r.store
    /\ probe_seen' = (probe_seen \/ focus \in r.probed)
    /\ IF r.rest = <<>>
       THEN /\ run_pc' = "sleep"
            /\ run_tasks' = <<>>
            /\ run_ws' = None
       ELSE /\ run_pc' = "exec"
            /\ run_tasks' = r.rest
            /\ run_ws' = ws_ref

\* the runner wakes up: tasks = [t for t in load_tasks() if not cancelled]
RunnerWake ==
    /\ UNCHANGED <<server_vars, tasks_file, io_vars>>
    /\ run_pc = "sleep"
    /\ RunnerApply(RunnerScan(NotCancelled(store), store, atime, active_ip,
                              reach_local, reach_vpn, srv_cancelled))
    /\ UNCHANGED <<atime, state_vars, env_vars, chan_vars, ev_vars,
                   focus, delivered, unsent, cancel_seen>>

\* execute_task's tail: the result goes out only on the channel the call was
\* given, and only if that channel is still open
SendResult(ws, id) ==
    IF id # focus THEN UNCHANGED <<delivered, unsent>>
    ELSE IF ws = "ws"
    THEN /\ delivered' = TRUE
         /\ UNCHANGED unsent
    ELSE /\ unsent' = TRUE
         /\ UNCHANGED delivered

\* execute_task returns to the runner: remove or stamp the task, go on scanning
RunnerExecDone ==
    /\ UNCHANGED <<server_vars, tasks_file, io_vars>>
    /\ run_pc = "exec"
    /\ LET task == Head(run_tasks)
           st1 == IF task.trigger_type = "once"
                  THEN remove_task(store, task.task_id)
                  ELSE record_last_run(store, task.task_id, atime)
       IN /\ SendResult(run_ws, task.task_id)
          /\ RunnerApply(RunnerScan(Tail(run_tasks), st1, atime, active_ip,
                                    reach_local, reach_vpn, srv_cancelled))
    /\ UNCHANGED <<atime, state_vars, env_vars, chan_vars, ev_vars,
                   focus, cancel_seen>>

\* ------------------------------------------------ agent: event_task_watcher
EventTasks(st) ==
    SelectSeq(st, LAMBDA r : r.trigger_type = "event" /\ ~r.cancelled)

\* what is left of the scan from the next task with event_trigger network_change
RECURSIVE NextEvent(_)
NextEvent(tasks) ==
    IF tasks = <<>> THEN <<>>
    ELSE IF Head(tasks).event_trigger = "network_change" THEN tasks
    ELSE NextEvent(Tail(tasks))

WatcherApply(rest) ==
    IF rest = <<>>
    THEN /\ ev_pc' = "sleep"
         /\ ev_tasks' = <<>>
         /\ ev_ws' = None
    ELSE /\ ev_pc' = "exec"
         /\ ev_tasks' = rest
         /\ ev_ws' = ws_ref

\* network_changed compares the SSID of the two samples and nothing else
network_changed(cur_ssid, cur_ip, last_ssid, last_ip) == cur_ssid # last_ssid

\* an iteration that finds the network changed (one that finds it unchanged
\* changes nothing): last_network = current_network
WatcherWake ==
    /\ UNCHANGED <<server_vars, tasks_file>>
    /\ ev_pc = "sleep"
    /\ network_changed(ssid, local_ip, last_network, last_local_ip)
    /\ last_network' = ssid
    /\ last_local_ip' = local_ip
    /\ UNCHANGED <<local_ip, note_vars, msg_vars, pace_vars, exec_vars>>
    /\ active_ip' = ""
    /\ WatcherApply(NextEvent(EventTasks(store)))
    /\ UNCHANGED <<atime, store, last_ip_test, env_vars, chan_vars, run_vars,
                   hist_vars>>

WatcherExecDone ==
    /\ UNCHANGED <<server_vars, tasks_file, io_vars>>
    /\ ev_pc = "exec"
    /\ SendResult(ev_ws, Head(ev_tasks).task_id)
    /\ WatcherApply(NextEvent(Tail(ev_tasks)))
    /\ UNCHANGED <<atime, store, state_vars, env_vars, chan_vars, run_vars,
                   last_network, focus, cancel_seen, probe_seen>>

\* ------------------------------------------------- agent: ws_loop.receive
RecvSchedule(id) ==
    /\ UNCHANGED <<server_vars, io_vars>>
    /\ tasks_file' = "json"
    /\ ws_pc = "connected"
    /\ store' = add_or_update_task(store, Payload(id))
    /\ UNCHANGED <<atime, state_vars, env_vars, chan_vars, run_vars, ev_vars,
                   hist_vars>>

RecvCancel(id) ==
    /\ UNCHANGED <<server_vars, io_vars>>
    /\ tasks_file' = "json"
    /\ ws_pc = "connected"
    /\ store' = cancel_task_local(store, id)
    /\ cancel_seen' = (cancel_seen \/ id = focus)
    /\ UNCHANGED <<atime, state_vars, env_vars, chan_vars, run_vars, ev_vars,
                   focus, delivered, unsent, probe_seen>>

\* the messages of the loop besides a well-formed schedule_task or cancel_task:
\* text that is no JSON, JSON that is no object, an object of a type the loop
\* has no branch for, a schedule_task without "data" or with a "data" that has
\* no task_id, a cancel_task without "task_id", the five requests of
\* handle_ws_message_v2 and disk_scan_request
Malformed == {"not_json", "not_object", "unknown", "schedule_no_data",
              "schedule_no_id", "cancel_no_id"}
V2Types == {"get_processes", "kill_process", "quick_action", "software_scan",
            "hw_scan_request"}
Inbound == Malformed \cup V2Types \cup {"disk_scan_request"}

\* json.loads, msg.get and msg['data'] raise inside the try of the loop body
Raises(raw) == raw \in {"not_json", "not_object", "schedule_no_data"}

\* the record add_or_update_task stores for {} or for a data object without
\* task_id, read with the defaults of .get
EmptyTask ==
    [task_id |-> None, trigger_type |-> "now", scheduled_at |-> NoTime,
     interval_seconds |-> NoTime, cron_expression |-> <<>>,
     event_trigger |-> None, cancelled |-> FALSE, last_run |-> NoTime]

\* a loop whose error leaves the `async for`
close_on_message_error(pc) == "idle"

\* except Exception as e: log.error(...), and the `async for` goes on
on_message_error(pc) == pc

\* one pass of the loop body for a message of Inbound.  The branches are
\* run_task, schedule_task, cancel_task, update_policy and disk_scan_request:
\* a type without a branch falls through; do_disk_scan answers with disk_scan
receive(raw) ==
    /\ UNCHANGED server_vars
    /\ ws_pc = "connected"
    /\ rx' = raw
    /\ store' = CASE raw \in {"schedule_no_data", "schedule_no_id"} ->
                        add_or_update_task(store, EmptyTask)
                  [] raw = "cancel_no_id" -> cancel_task_local(store, "")
                  [] OTHER -> store
    /\ tasks_file' = IF raw \in {"schedule_no_data", "schedule_no_id", "cancel_no_id"}
                      THEN "json" ELSE tasks_file
    /\ replies' = IF raw = "disk_scan_request"
                   THEN replies \cup {"disk_scan"} ELSE replies
    /\ ws_pc' = IF Raises(raw) THEN on_message_error(ws_pc) ELSE ws_pc
    /\ ws_ref' = IF ws_pc' = "connected" THEN ws_ref ELSE None
    /\ UNCHANGED <<atime, state_vars, env_vars, server_ip, run_vars, ev_vars,
                   hist_vars, net_vars, note_vars, pace_vars, exec_vars>>

\* ---------------------------------------------- agent: ws_loop.heartbeat
\* the levels round(b.percent, 1) takes on both sides of every step, in tenths
\* of a percent, and no battery
Levels == {NoLevel, 0, 99, 100, 199, 200, 499, 500, 799, 800, 1000}
\* the seconds an update_policy message sets a pacing key to
PolicyValues == {45}

\* an interval function whose steps exclude their lower end
checkin_interval_above(lvl, c, pol) ==
    IF c \/ lvl = NoLevel THEN pol["plugged"]
    ELSE IF lvl > 800 THEN pol["100_80"]
    ELSE IF lvl > 500 THEN pol["79_50"]
    ELSE IF lvl > 200 THEN pol["49_20"]
    ELSE IF lvl > 100 THEN pol["19_10"]
    ELSE pol["9_0"]

get_checkin_interval(lvl, c, pol) ==
    IF c \/ lvl = NoLevel THEN pol["plugged"]
    ELSE IF lvl >= 800 THEN pol["100_80"]
    ELSE IF lvl >= 500 THEN pol["79_50"]
    ELSE IF lvl >= 200 THEN pol["49_20"]
    ELSE IF lvl >= 100 THEN pol["19_10"]
    ELSE pol["9_0"]

\* one round of heartbeat(): the message is sent, then
\* asyncio.sleep(get_checkin_interval()) starts
heartbeat ==
    /\ UNCHANGED <<server_vars, tasks_file>>
    /\ ws_pc = "connected"
    /\ hb_sleep' = get_checkin_interval(battery, charging, policy)
    /\ UNCHANGED <<atime, store, state_vars, env_vars, chan_vars, run_vars,
                   ev_vars, hist_vars, net_vars, note_vars, msg_vars,
                   battery, charging, policy, exec_vars>>

\* the update_policy branch of the receive loop: policy.update(data)
update_policy(k, v) ==
    /\ UNCHANGED <<server_vars, tasks_file>>
    /\ ws_pc = "connected"
    /\ rx' = "update_policy"
    /\ policy' = [policy EXCEPT ![k] = v]
    /\ UNCHANGED <<atime, store, state_vars, env_vars, chan_vars, run_vars,
                   ev_vars, hist_vars, net_vars, note_vars, replies,
                   battery, charging, hb_sleep, exec_vars>>

\* the battery drains or charges, the charger is plugged or pulled
BatteryChange(lvl, c) ==
    /\ UNCHANGED <<server_vars, tasks_file>>
    /\ battery' = lvl
    /\ charging' = c
    /\ UNCHANGED <<atime, store, state_vars, env_vars, chan_vars, run_vars,
                   ev_vars, hist_vars, net_vars, note_vars, msg_vars,
                   policy, hb_sleep, exec_vars>>

\* ---------------------------------------------------- agent: execute_task
\* the characters a subprocess writes to its pipes
Chars == {"a", "b"}
\* "Task timed out after 300s" and the str(e) of a spawn failure
TimeoutNotice == <<"T", "O">>
SpawnError == <<"E">>
\* no execution has produced a result
NoResult == [exit_code |-> 0, stdout |-> <<>>, stderr |-> <<>>]

\* s[:n]
head(s, n) == SubSeq(s, 1, IF Len(s) < n THEN Len(s) ELSE n)

\* the result dict built from the exit code and the joined buffers
build_result(code, out, err) ==
    [exit_code |-> code, stdout |-> head(out, StdoutLimit),
     stderr |-> head(err, StderrLimit)]

\* the messages execute_task sends: a line of output, the result, the closing
\* empty line
output_message(text) == [type |-> "task_output", output |-> text, progress |-> 50]
result_message == [type |-> "task_result", output |-> "", progress |-> 0]
final_message == [type |-> "task_output", output |-> "", progress |-> 100]

\* ws.send under `if ws:` with the channel open; a failed send is swallowed
ws_send(box, msgs) == IF ws_pc = "connected" THEN box \o msgs ELSE box

\* asyncio.create_subprocess_exec: the subprocess starts with empty buffers,
\* or the call raises and the except branch builds the result
create_subprocess_exec(ok) ==
    /\ UNCHANGED <<server_vars, tasks_file>>
    /\ proc.pc # "running"
    /\ IF ok
          THEN /\ proc' = [pc |-> "running", outcome |-> "none",
                           out |-> <<>>, err |-> <<>>, reader |-> "open"]
               /\ result' = NoResult
               /\ outbox' = <<>>
          ELSE /\ proc' = [pc |-> "done", outcome |-> "spawn_error",
                           out |-> <<>>, err |-> SpawnError, reader |-> "eof"]
               /\ result' = build_result(0 - 1, <<>>, SpawnError)
               /\ outbox' = ws_send(<<>>, <<result_message, final_message>>)
    /\ UNCHANGED <<atime, store, state_vars, env_vars, chan_vars, run_vars,
                   ev_vars, hist_vars, net_vars, note_vars, msg_vars, pace_vars,
                   cron_frame>>

\* stream_stdout appends the line the subprocess wrote to stdout_buf and
\* sends it as task_output
stream_stdout(ch) ==
    /\ UNCHANGED <<server_vars, tasks_file>>
    /\ proc.pc = "running"
    /\ Len(proc.out) < MaxStdout
    /\ proc' = [proc EXCEPT !.out = Append(@, ch)]
    /\ outbox' = ws_send(outbox, <<output_message(ch)>>)
    /\ UNCHANGED result
    /\ UNCHANGED <<atime, store, state_vars, env_vars, chan_vars, run_vars,
                   ev_vars, hist_vars, net_vars, note_vars, msg_vars, pace_vars,
                   cron_frame>>

\* stream_stderr appends what the subprocess wrote to stderr_buf
stream_stderr(ch) ==
    /\ UNCHANGED <<server_vars, tasks_file>>
    /\ proc.pc = "running"
    /\ Len(proc.err) < MaxStderr
    /\ proc' = [proc EXCEPT !.err = Append(@, ch)]
    /\ UNCHANGED <<result, outbox>>
    /\ UNCHANGED <<atime, store, state_vars, env_vars, chan_vars, run_vars,
                   ev_vars, hist_vars, net_vars, note_vars, msg_vars, pace_vars,
                   cron_frame>>

\* the subprocess exits within the limit and both readers have met the end
\* of their pipes: exit_code = proc.returncode, the result and the closing line
\* are sent
proc_wait(code) ==
    /\ UNCHANGED <<server_vars, tasks_file>>
    /\ proc.pc = "running"
    /\ proc' = [proc EXCEPT !.pc = "done", !.outcome = "exit", !.reader = "eof"]
    /\ result' = build_result(code, proc.out, proc.err)
    /\ outbox' = ws_send(outbox, <<result_message, final_message>>)
    /\ UNCHANGED <<atime, store, state_vars, env_vars, chan_vars, run_vars,
                   ev_vars, hist_vars, net_vars, note_vars, msg_vars, pace_vars,
                   cron_frame>>

\* asyncio.TimeoutError after 300 s: proc.kill(), exit_code = -1 and the
\* notice is appended to stderr_buf; the result and the closing line are sent.
\* asyncio.gather leaves its other awaitables running when wait_for raises, so
\* the reader of stdout stays open
wait_for_timeout ==
    /\ UNCHANGED <<server_vars, tasks_file>>
    /\ proc.pc = "running"
    /\ proc' = [proc EXCEPT !.pc = "done", !.outcome = "timeout",
                            !.err = @ \o TimeoutNotice]
    /\ result' = build_result(0 - 1, proc.out, proc.err \o TimeoutNotice)
    /\ outbox' = ws_send(outbox, <<result_message, final_message>>)
    /\ UNCHANGED <<atime, store, state_vars, env_vars, chan_vars, run_vars,
                   ev_vars, hist_vars, net_vars, note_vars, msg_vars, pace_vars,
                   cron_frame>>

\* stream_stdout after the timeout: it reads a line the killed subprocess had
\* written and sends it (stdout_buf is read no more)
late_stdout(ch) ==
    /\ UNCHANGED <<server_vars, tasks_file>>
    /\ proc.pc = "done"
    /\ proc.reader = "open"
    /\ Len(outbox) < MaxStdout + 3
    /\ outbox' = ws_send(outbox, <<output_message(ch)>>)
    /\ UNCHANGED <<proc, result>>
    /\ UNCHANGED <<atime, store, state_vars, env_vars, chan_vars, run_vars,
                   ev_vars, hist_vars, net_vars, note_vars, msg_vars, pace_vars,
                   cron_frame>>

\* stream_stdout meets the end of the killed subprocess's pipe
stdout_eof ==
    /\ UNCHANGED <<server_vars, tasks_file>>
    /\ proc.pc = "done"
    /\ proc.reader = "open"
    /\ proc' = [proc EXCEPT !.reader = "eof"]
    /\ UNCHANGED <<result, outbox>>
    /\ UNCHANGED <<atime, store, state_vars, env_vars, chan_vars, run_vars,
                   ev_vars, hist_vars, net_vars, note_vars, msg_vars, pace_vars,
                   cron_frame>>

\* ------------------------------------------------------- agent: ws_loop
\* a selection that tries the VPN endpoint before the local one
select_vpn_first(force, aip, test, rl, rv) ==
    LET cached == IF aip = None THEN "" ELSE aip IN
    IF cached # "" /\ ~force /\ ~should_retest(test)
    THEN [ip |-> cached, active_ip |-> aip, last_ip_test |-> test]
    ELSE IF rv
    THEN [ip |-> SERVER_IP_VPN, active_ip |-> SERVER_IP_VPN, last_ip_test |-> "fresh"]
    ELSE IF rl
    THEN [ip |-> SERVER_IP_LOCAL, active_ip |-> SERVER_IP_LOCAL, last_ip_test |-> "fresh"]
    ELSE [ip |-> IF cached # "" THEN cached ELSE SERVER_IP_LOCAL,
          active_ip |-> aip, last_ip_test |-> test]

\* select_server_ip: the endpoint returned and the state it leaves
select_server_ip(force, aip, test, rl, rv) ==
    LET cached == IF aip = None THEN "" ELSE aip IN
    IF cached # "" /\ ~force /\ ~should_retest(test)
    THEN [ip |-> cached, active_ip |-> aip, last_ip_test |-> test]
    ELSE IF rl
    THEN [ip |-> SERVER_IP_LOCAL, active_ip |-> SERVER_IP_LOCAL, last_ip_test |-> "fresh"]
    ELSE IF rv
    THEN [ip |-> SERVER_IP_VPN, active_ip |-> SERVER_IP_VPN, last_ip_test |-> "fresh"]
    ELSE [ip |-> IF cached # "" THEN cached ELSE SERVER_IP_LOCAL,
          active_ip |-> aip, last_ip_test |-> test]

\* state_set("last_ip_test", "") in the except branch
KeepStamp(test) == test
ClearStamp(test) == ""

\* a channel object that has failed stays in the hands of running executors
StaleWs(ws) == IF ws = None THEN None ELSE "stale"

\* top of the while loop (at start, or when the 30 s sleep is over)
WsSelect ==
    /\ UNCHANGED <<server_vars, tasks_file, io_vars>>
    /\ ws_pc = "idle"
    /\ LET r == select_server_ip(FALSE, active_ip, last_ip_test, reach_local, reach_vpn)
       IN /\ server_ip' = r.ip
          /\ active_ip' = r.active_ip
          /\ last_ip_test' = r.last_ip_test
    /\ ws_pc' = "connecting"
    /\ UNCHANGED <<atime, store, env_vars, ws_ref, run_vars, ev_vars, hist_vars>>

\* websockets.connect returns (the reconnect notification follows if the
\* state says was_offline) or raises
WsConnect ==
    /\ UNCHANGED <<server_vars, tasks_file>>
    /\ ws_pc = "connecting"
    /\ IF Reach(server_ip, reach_local, reach_vpn)
       THEN /\ ws_ref' = "ws"
            /\ ws_pc' = "connected"
            /\ toasts' = IF was_offline /\ toasts < MaxToasts
                          THEN toasts + 1 ELSE toasts
            /\ was_offline' = FALSE
            /\ UNCHANGED last_ip_test
       ELSE /\ ws_ref' = None
            /\ last_ip_test' = ClearStamp(last_ip_test)
            /\ ws_pc' = "idle"
            /\ UNCHANGED <<was_offline, toasts>>
    /\ UNCHANGED <<net_vars, msg_vars, pace_vars, exec_vars>>
    /\ UNCHANGED <<atime, store, active_ip, env_vars, server_ip, run_vars,
                   ev_vars, hist_vars>>

\* heartbeat() or receive() raises: the except branch (it writes the key
\* "last_ip_test" of the state and no other)
WsError ==
    /\ UNCHANGED <<server_vars, tasks_file>>
    /\ ws_pc = "connected"
    /\ ws_ref' = None
    /\ last_ip_test' = ClearStamp(last_ip_test)
    /\ ws_pc' = "idle"
    /\ run_ws' = StaleWs(run_ws)
    /\ ev_ws' = StaleWs(ev_ws)
    /\ UNCHANGED <<atime, store, active_ip, env_vars, server_ip, run_pc, run_tasks,
                   ev_pc, ev_tasks, last_network, hist_vars>>
    /\ UNCHANGED <<note_vars, net_vars, msg_vars, pace_vars, exec_vars>>

\* -------------------------------------------------- agent: weekly_ip_retest
\* the sleep is over: select_server_ip(force=True)
weekly_ip_retest ==
    /\ UNCHANGED <<server_vars, tasks_file, io_vars>>
    /\ LET r == select_server_ip(TRUE, active_ip, last_ip_test, reach_local, reach_vpn)
       IN /\ active_ip' = r.active_ip
          /\ last_ip_test' = r.last_ip_test
    /\ UNCHANGED <<atime, store, env_vars, chan_vars, run_vars, ev_vars, hist_vars>>

\* ---------------------------------------------------- agent: environment
TickTo(max) ==
    /\ UNCHANGED <<server_vars, tasks_file, io_vars>>
    /\ atime < max
    /\ atime' = atime + 1
    /\ UNCHANGED <<store, state_vars, env_vars, chan_vars, run_vars, ev_vars,
                   hist_vars>>

Tick == TickTo(MaxATime)

\* more than WEEK seconds have passed since the last endpoint test
WeekPasses ==
    /\ UNCHANGED <<server_vars, tasks_file, io_vars>>
    /\ last_ip_test = "fresh"
    /\ last_ip_test' = "old"
    /\ UNCHANGED <<atime, store, active_ip, env_vars, chan_vars, run_vars,
                   ev_vars, hist_vars>>

ToggleLocal ==
    /\ UNCHANGED <<server_vars, tasks_file, io_vars>>
    /\ reach_local' = ~reach_local
    /\ UNCHANGED <<atime, store, state_vars, reach_vpn, ssid, srv_cancelled,
                   chan_vars, run_vars, ev_vars, hist_vars>>

ToggleVpn ==
    /\ UNCHANGED <<server_vars, tasks_file, io_vars>>
    /\ reach_vpn' = ~reach_vpn
    /\ UNCHANGED <<atime, store, state_vars, reach_local, ssid, srv_cancelled,
                   chan_vars, run_vars, ev_vars, hist_vars>>

SsidChange ==
    /\ UNCHANGED <<server_vars, tasks_file, io_vars>>
    /\ ssid' = IF ssid = "n1" THEN "n2" ELSE "n1"
    /\ UNCHANGED <<atime, store, state_vars, reach_local, reach_vpn,
                   srv_cancelled, chan_vars, run_vars, ev_vars, hist_vars>>

\* the machine gets another primary IPv4 address (DHCP lease, other subnet)
IpChange ==
    /\ UNCHANGED <<server_vars, tasks_file>>
    /\ local_ip' = IF local_ip = "ip1" THEN "ip2" ELSE "ip1"
    /\ UNCHANGED <<atime, store, state_vars, env_vars, chan_vars, run_vars,
                   ev_vars, hist_vars, last_local_ip, note_vars, msg_vars,
                   pace_vars, exec_vars>>

\* the operator cancels a task on the server
ServerCancel(id) ==
    /\ UNCHANGED <<server_vars, tasks_file, io_vars>>
    /\ id \notin srv_cancelled
    /\ srv_cancelled' = srv_cancelled \cup {id}
    /\ UNCHANGED <<atime, store, state_vars, reach_local, reach_vpn, ssid,
                   chan_vars, run_vars, ev_vars, hist_vars>>

\* ----------------------------------------------------------- agent: Init
\* what the agent's process holds besides when the loops start
IoInit ==
    /\ local_ip = "ip1"
    /\ last_local_ip = "ip1"
    /\ was_offline = FALSE
    /\ toasts = 0
    /\ rx = None
    /\ replies = {}
    /\ battery = NoLevel
    /\ charging = FALSE
    /\ policy = DefaultPolicy
    /\ hb_sleep = NoTime
    /\ proc = [pc |-> "none", outcome |-> "none", out |-> <<>>, err |-> <<>>,
               reader |-> "eof"]
    /\ result = NoResult
    /\ outbox = <<>>
    /\ cron_frame = [pc |-> "idle", expr |-> <<>>, candidate |-> NoTime,
                     target_wd |-> NoTime, value |-> NoTime]

\* main() has selected the local endpoint and checked in: the snapshot `ids`
\* of the server's tasks is in the store (`st`), the clock reads `t0`, ws_loop
\* is at `pc` with channel `ws`
AgentBoot(st, t0, f, pc, ws) ==
    /\ atime = t0
    /\ store = st
    /\ tasks_file = "json"
    /\ active_ip = SERVER_IP_LOCAL
    /\ last_ip_test = "fresh"
    /\ reach_local = TRUE
    /\ reach_vpn = FALSE
    /\ ssid = "n1"
    /\ ws_pc = pc
    /\ server_ip = SERVER_IP_LOCAL
    /\ ws_ref = ws
    /\ run_pc = "sleep"
    /\ run_tasks = <<>>
    /\ run_ws = None
    /\ ev_pc = "sleep"
    /\ ev_tasks = <<>>
    /\ ev_ws = None
    /\ last_network = "n1"
    /\ srv_cancelled = {}
    /\ focus = f
    /\ delivered = FALSE
    /\ unsent = FALSE
    /\ cancel_seen = FALSE
    /\ probe_seen = FALSE
    /\ IoInit

AgentStart(ids, f, pc, ws) == AgentBoot(TaskList(ids), 0, f, pc, ws)

\* the agent as main() leaves it when gather() starts the four loops
AgentInit == AgentStart(CachedIds, "once1", "idle", None)

\* ------------------------------------------------------------ agent: specs
\* the task store, the runner, the watcher and the receiver of an agent whose
\* channel is open
AgentNext ==
    \/ RunnerWake
    \/ RunnerExecDone
    \/ WatcherWake
    \/ WatcherExecDone
    \/ \E id \in AgentTasks \ {"cron1"} : RecvSchedule(id)
    \/ \E id \in AgentTasks \ {"cron1"} : RecvCancel(id)
    \/ Tick
    \/ SsidChange
    \/ \E id \in {"intv1", "once1"} : ServerCancel(id)

AgentSpecInit ==
    /\ ServerInit
    /\ \E f \in AgentTasks \ {"cron1"} : AgentStart(CachedIds, f, "connected", "ws")

AgentSpec == AgentSpecInit /\ [][AgentNext]_vars

\* the runner of an agent whose channel comes and goes
RunnerNext ==
    \/ RunnerWake
    \/ RunnerExecDone
    \/ WsSelect
    \/ WsConnect
    \/ WsError
    \/ Tick
    \/ ToggleLocal

RunnerInit ==
    /\ ServerInit
    /\ \E f \in {"cron1", "once1"} : AgentStart(OfflineIds, f, "idle", None)

RunnerSpec ==
    /\ RunnerInit
    /\ [][RunnerNext]_vars
    /\ WF_vars(RunnerWake)
    /\ WF_vars(RunnerExecDone)
    /\ WF_vars(WsSelect)
    /\ WF_vars(WsConnect)

\* endpoint selection and the channel loop
ChannelNext ==
    \/ WsSelect
    \/ WsConnect
    \/ WsError
    \/ WatcherWake
    \/ weekly_ip_retest
    \/ WeekPasses
    \/ ToggleLocal
    \/ ToggleVpn
    \/ SsidChange

ChannelInit ==
    /\ ServerInit
    /\ AgentStart(<<>>, "once1", "idle", None)

ChannelSpec ==
    /\ ChannelInit
    /\ [][ChannelNext]_vars
    /\ WF_vars(WsSelect)
    /\ WF_vars(WsConnect)

\* ------------------------------------------- agent: crash and restart
\* the process stops inside save_tasks(tasks) called by add_or_update_task for
\* a schedule_task message: write_text truncates the file and then writes, so
\* the file holds all of `tasks` (written) or a prefix of its text, which
\* json.loads rejects and load_tasks turns into []
CrashInUpsert(id, written) ==
    /\ UNCHANGED <<server_vars, io_vars>>
    /\ ws_pc = "connected"
    /\ IF written
       THEN /\ store' = add_or_update_task(store, Payload(id))
            /\ tasks_file' = "json"
       ELSE /\ store' = <<>>
            /\ tasks_file' = "torn"
    /\ ws_pc' = "down"
    /\ ws_ref' = None
    /\ run_pc' = "down"
    /\ run_tasks' = <<>>
    /\ run_ws' = None
    /\ ev_pc' = "down"
    /\ ev_tasks' = <<>>
    /\ ev_ws' = None
    /\ UNCHANGED <<atime, state_vars, env_vars, server_ip, last_network, hist_vars>>

\* the upserts of the check-in snapshot, in order
RECURSIVE bootstrap(_, _)
bootstrap(st, ids) ==
    IF ids = <<>> THEN st
    ELSE bootstrap(add_or_update_task(st, Payload(Head(ids))), Tail(ids))

\* the service starts the process again: main() up to gather().  `snapshot` is
\* the task list of the check-in answer, <<>> if the check-in fails
main(snapshot) ==
    /\ UNCHANGED <<server_vars, io_vars>>
    /\ ws_pc = "down"
    /\ LET r == select_server_ip(FALSE, active_ip, last_ip_test, reach_local, reach_vpn)
       IN /\ snapshot # <<>> => Reach(r.ip, reach_local, reach_vpn)
          /\ active_ip' = r.active_ip
          /\ last_ip_test' = r.last_ip_test
    /\ store' = bootstrap(store, snapshot)
    /\ tasks_file' = IF snapshot = <<>> THEN tasks_file ELSE "json"
    /\ ws_pc' = "idle"
    /\ run_pc' = "sleep"
    /\ ev_pc' = "sleep"
    /\ last_network' = ssid
    /\ UNCHANGED <<atime, env_vars, server_ip, ws_ref, run_tasks, run_ws,
                   ev_tasks, ev_ws, hist_vars>>

\* the store file of an agent that is stopped in the middle of a write
FileIds == <<"intv1", "once1">>
FileNext ==
    \/ \E id \in {"intv1", "once1"} : RecvSchedule(id)
    \/ \E id \in {"intv1", "once1"} : RecvCancel(id)
    \/ RunnerWake
    \/ RunnerExecDone
    \/ Tick
    \/ WsSelect
    \/ WsConnect
    \/ \E id \in {"intv1", "once1"}, written \in BOOLEAN : CrashInUpsert(id, written)
    \/ \E snapshot \in {<<>>, FileIds} : main(snapshot)

FileInit ==
    /\ ServerInit
    /\ AgentStart(FileIds, "once1", "connected", "ws")

FileSpec == FileInit /\ [][FileNext]_vars

\* the boot of an agent whose check-in succeeds exactly when the endpoint
\* main() selected answers: the ten attempts fail together or the snapshot
\* arrives
boot ==
    \E snapshot \in {<<>>, FileIds} :
        /\ snapshot = <<>> <=> ~(reach_local \/ reach_vpn)
        /\ main(snapshot)

BootNext ==
    \/ boot
    \/ WsSelect
    \/ WsConnect
    \/ WsError
    \/ RunnerWake
    \/ RunnerExecDone
    \/ weekly_ip_retest
    \/ WeekPasses
    \/ ToggleLocal
    \/ ToggleVpn

BootInit ==
    /\ ServerInit
    /\ AgentStart(<<>>, "once1", "down", None)

BootSpec ==
    /\ BootInit
    /\ [][BootNext]_vars
    /\ WF_vars(boot)
    /\ WF_vars(WsSelect)
    /\ WF_vars(WsConnect)
    /\ WF_vars(RunnerWake)
    /\ WF_vars(RunnerExecDone)
    /\ WF_vars(weekly_ip_retest)

\* ------------------------------------- server: the dashboard registry
\* len(dashboard_connections): the entries that are not deleted
ma_used(entries) == Cardinality({i \in DOMAIN entries : entries[i] # Deleted})

\* the entries the iterator has still to visit: those behind its position
entries_left(entries, pos) == {i \in DOMAIN entries : i > pos /\ entries[i] # Deleted}

\* next() of the dict's value iterator raises RuntimeError when the dict has
\* changed size since the iterator was made, or when the iterator has yielded
\* as many values as the dict held and an entry is still left
iterator_raises(entries, it) ==
    \/ it.di_used # ma_used(entries)
    \/ entries_left(entries, it.di_pos) # {} /\ it.len = 0

\* websocket_dashboard: accept, connection_id = str(uuid.uuid4()), insert
websocket_dashboard ==
    /\ UNCHANGED agent_vars
    /\ Len(dashboard_connections) < MaxDashboards
    /\ dashboard_connections' =
           Append(dashboard_connections, Len(dashboard_connections) + 1)
    /\ UNCHANGED <<now, tickDue, agent_connections, conn_pc, conn_token,
                   conn_dev, status, last_seen, schedule, task_last_run,
                   sched_idx, sched_tasks, sent, task_result, storage_vars,
                   tag_vars, bcast>>

\* websocket_dashboard: WebSocketDisconnect, del dashboard_connections[connection_id]
dashboard_disconnect(connection_id) ==
    /\ UNCHANGED agent_vars
    /\ connection_id \in DOMAIN dashboard_connections
    /\ dashboard_connections[connection_id] # Deleted
    /\ dashboard_connections' =
           [dashboard_connections EXCEPT ![connection_id] = Deleted]
    /\ UNCHANGED <<now, tickDue, agent_connections, conn_pc, conn_token,
                   conn_dev, status, last_seen, schedule, task_last_run,
                   sched_idx, sched_tasks, sent, task_result, storage_vars,
                   tag_vars, bcast>>

\* the finally block of websocket_agent up to its first await, entered by an
\* exception that left handle_agent_message
finally_block(c) ==
    IF conn_dev[c] # None /\ Registered(conn_dev[c])
    THEN /\ agent_connections' = [agent_connections EXCEPT ![conn_dev[c]] = None]
         /\ conn_pc' = [conn_pc EXCEPT ![c] = "fin_db"]
         /\ UNCHANGED <<conn_token, conn_dev>>
    ELSE /\ conn_pc' = [conn_pc EXCEPT ![c] = "closed"]
         /\ conn_token' = [conn_token EXCEPT ![c] = None]
         /\ conn_dev' = [conn_dev EXCEPT ![c] = None]
         /\ UNCHANGED agent_connections

\* one turn of `for websocket in dashboard_connections.values():` for the
\* handler of channel c: next() raises outside the try of the loop body and
\* the error leaves broadcast_to_dashboards, the handler and the `while True`
\* of websocket_agent; or the values are exhausted; or the loop body is
\* suspended in `await websocket.send_json(message)`
broadcast_to_dashboards(c, it) ==
    /\ UNCHANGED agent_vars
    /\ IF iterator_raises(dashboard_connections, it)
       THEN /\ finally_block(c)
            /\ bcast' = NoBroadcast
       ELSE /\ UNCHANGED <<agent_connections, conn_pc, conn_token, conn_dev>>
            /\ IF entries_left(dashboard_connections, it.di_pos) = {}
               THEN bcast' = NoBroadcast
               ELSE bcast' = [it EXCEPT
                        !.pc = "send", !.by = c, !.len = it.len - 1,
                        !.di_pos = CHOOSE i \in entries_left(dashboard_connections, it.di_pos) :
                                       \A j \in entries_left(dashboard_connections, it.di_pos) : i <= j]
    /\ UNCHANGED <<now, tickDue, status, last_seen, schedule, task_last_run,
                   sched_idx, sched_tasks, sent, task_result, storage_vars,
                   tag_vars, dashboard_connections>>

\* handle_stats_update from its call of broadcast_to_dashboards: the iterator
\* is made over the dict as it is now
handle_stats_update(c) ==
    /\ conn_pc[c] = "loop"
    /\ bcast.pc = "idle"
    /\ broadcast_to_dashboards(c,
           [NoBroadcast EXCEPT !.di_used = ma_used(dashboard_connections),
                               !.len = ma_used(dashboard_connections)])

\* the send to a dashboard returns (or raises, which the loop body swallows)
\* and the loop goes round
send_json_returns ==
    /\ bcast.pc = "send"
    /\ broadcast_to_dashboards(bcast.by, bcast)

RegistryNext ==
    \/ \E c \in Conns, tok \in Tokens : Connect(c, tok)
    \/ \E c \in Conns, ty \in FirstTypes, d \in Devices : FirstMessage(c, ty, d)
    \/ \E c \in Conns : RegisterDb(c)
    \/ \E c \in Conns : FinallyDb(c)
    \/ websocket_dashboard
    \/ \E b \in 1..MaxDashboards : dashboard_disconnect(b)
    \/ \E c \in Conns : handle_stats_update(c)
    \/ send_json_returns

RegistryInit == ServerInit /\ AgentInit

RegistrySpec == RegistryInit /\ [][RegistryNext]_vars

\* =========================================================== server: specs
\* the connection manager and the offline detector
ServerNext ==
    \/ \E c \in Conns, tok \in Tokens : Connect(c, tok)
    \/ \E c \in Conns, ty \in FirstTypes, d \in Devices : FirstMessage(c, ty, d)
    \/ \E c \in Conns : RegisterDb(c)
    \/ \E c \in Conns : handle_heartbeat(c)
    \/ \E c \in Conns, m \in StorageData : handle_storage_detected(c, m)
    \/ \E c \in Conns : Disconnect(c)
    \/ \E c \in Conns : FinallyDb(c)
    \/ offline_detection_loop
    \/ AdvanceTime

Init == ServerInit /\ AgentInit

Spec == Init /\ [][ServerNext]_vars

\* the connection manager and the task scheduler
SchedNext ==
    \/ \E c \in Conns, tok \in Tokens : Connect(c, tok)
    \/ \E c \in Conns, ty \in FirstTypes, d \in SchedDevices : FirstMessage(c, ty, d)
    \/ \E c \in Conns : RegisterDb(c)
    \/ \E c \in Conns, t \in TaskIds : ResultOfSent(c, t)
    \/ \E c \in Conns : Disconnect(c)
    \/ \E c \in Conns : FinallyDb(c)
    \/ SchedulerLoad
    \/ \E ok \in BOOLEAN : SchedulerStep(ok)

\* the task table holds a one-shot or recurring task for d1, a manual task
\* and a one-shot task for d2
SchedInit ==
    /\ now = 0
    /\ tickDue = TRUE
    /\ agent_connections = [d \in Devices |-> None]
    /\ conn_pc = [c \in Conns |-> "closed"]
    /\ conn_token = [c \in Conns |-> None]
    /\ conn_dev = [c \in Conns |-> None]
    /\ status = [d \in Devices |-> "offline"]
    /\ last_seen = [d \in Devices |-> NoTime]
    /\ \E s1 \in Schedules \ {"manual"} :
          schedule = [t \in TaskIds |-> CASE t = "t1" -> s1 [] t = "t2" -> "manual"
                                           [] OTHER -> "once"]
    /\ task_last_run = [t \in TaskIds |-> NoTime]
    /\ sched_idx = 0
    /\ sched_tasks = [t \in TaskIds |-> NoTime]
    /\ sent = [t \in TaskIds |-> 0]
    /\ DbInit

SchedStart == SchedInit /\ AgentInit

SchedSpec == SchedStart /\ [][SchedNext]_vars

\* the result handler under every task_result message a channel may carry
ResultNext ==
    \/ \E c \in Conns, tok \in Tokens : Connect(c, tok)
    \/ \E c \in Conns, ty \in FirstTypes, d \in SchedDevices : FirstMessage(c, ty, d)
    \/ \E c \in Conns : RegisterDb(c)
    \/ \E c \in Conns, data \in ResultMessages : handle_task_result(c, data)
    \/ \E c \in Conns : Disconnect(c)
    \/ \E c \in Conns : FinallyDb(c)

ResultInit == ServerInit /\ AgentInit

ResultSpec == ResultInit /\ [][ResultNext]_vars

\* the storage manager scanning drive after drive
StorageNext ==
    \E mt \in MediaTypes, it \in InterfaceTypes, mo \in Models : scan_drive(mt, it, mo)

StorageInit == ServerInit /\ AgentInit

StorageSpec == StorageInit /\ [][StorageNext]_vars

\* new drives registered one after the other; random.randint draws every
\* value again and again
TagNext ==
    \/ \E st \in StorageTypes, d \in DateParts, n \in RandomValues :
          generate_asset_tag(st, d, n)
    \/ \E n \in RandomValues : redraw(n)
    \/ return_tag
    \/ add_storage

TagInit == ServerInit /\ AgentInit

TagSpec ==
    /\ TagInit
    /\ [][TagNext]_vars
    /\ WF_vars(return_tag)
    /\ \A n \in RandomValues : WF_vars(redraw(n))
\* ------------------------------------------------------- server: claims

\* C1: the offline-detection loop never turns a device offline while the
\* device has a channel in the agent connection registry.
C1_DetectorSparesRegistered ==
    [][\A d \in Devices :
          (offline_detection_loop /\ Registered(d) /\ status[d] = "online")
              => status'[d] = "online"]_vars

C10_ValidChannelRegistered ==
    [][/\ \A c \in Conns :
             (/\ conn_token[c] = AGENT_TOKEN
              /\ \E ty \in FirstTypes, d \in Devices : FirstMessage(c, ty, d))
                 => \E d \in Devices : agent_connections'[d] = c
       /\ \A d \in Devices :
             agent_connections'[d] # None
                 => conn_token'[agent_connections'[d]] = AGENT_TOKEN]_vars

\* ------------------------------------------- agent: the network watcher
\* the watcher and endpoint selection of an agent whose network changes
NetworkNext ==
    \/ WatcherWake
    \/ WatcherExecDone
    \/ WsSelect
    \/ WsConnect
    \/ WsError
    \/ SsidChange
    \/ IpChange
    \/ ToggleLocal
    \/ ToggleVpn

NetworkInit ==
    /\ ServerInit
    /\ AgentStart(<<"evt1">>, "evt1", "idle", None)

NetworkSpec ==
    /\ NetworkInit
    /\ [][NetworkNext]_vars
    /\ WF_vars(WatcherWake)
    /\ WF_vars(WatcherExecDone)

\* ------------------------------------------- agent: the receive loop
ReceiveNext ==
    \/ \E raw \in Inbound : receive(raw)
    \/ \E id \in {"intv1"} : RecvSchedule(id)
    \/ \E id \in {"intv1"} : RecvCancel(id)
    \/ WsError
    \/ WsSelect
    \/ WsConnect

ReceiveInit ==
    /\ ServerInit
    /\ AgentStart(FileIds, "intv1", "connected", "ws")

ReceiveSpec ==
    /\ ReceiveInit
    /\ [][ReceiveNext]_vars
    /\ WF_vars(WsSelect)
    /\ WF_vars(WsConnect)

\* ------------------------------------------- agent: heartbeat pacing
PaceNext ==
    \/ heartbeat
    \/ \E k \in PolicyKeys :
          \E v \in PolicyValues \cup {DefaultPolicy[k]} : update_policy(k, v)
    \/ \E lvl \in Levels, c \in BOOLEAN : BatteryChange(lvl, c)

PaceInit ==
    /\ ServerInit
    /\ AgentStart(<<>>, "once1", "connected", "ws")

PaceSpec == PaceInit /\ [][PaceNext]_vars

\* ------------------------------------------- agent: task execution
ExecNext ==
    \/ \E ok \in BOOLEAN : create_subprocess_exec(ok)
    \/ \E ch \in Chars : stream_stdout(ch)
    \/ \E ch \in Chars : stream_stderr(ch)
    \/ \E code \in {0, 1} : proc_wait(code)
    \/ wait_for_timeout
    \/ \E ch \in Chars : late_stdout(ch)
    \/ stdout_eof

ExecInit ==
    /\ ServerInit
    /\ AgentStart(<<>>, "once1", "connected", "ws")

ExecSpec == ExecInit /\ [][ExecNext]_vars

\* ------------------------------------------- agent: the trigger evaluator
\* the fields a cron expression is drawn from
CronTexts == {"0", "1", "2", "3", "*", "x"}
CronExprs ==
    {<<m, h, "*", "*", w>> : m \in CronTexts, h \in CronTexts, w \in CronTexts}
        \cup {<<>>, <<"1", "0", "*", "*">>}
LastRuns == {NoTime} \cup 0..MaxNow
\* the cron and interval records the evaluator is applied to
TriggerRecords ==
    {[Payload("cron1") EXCEPT !.cron_expression = e, !.last_run = l] :
        e \in CronExprs, l \in LastRuns}
    \cup {[Payload("intv1") EXCEPT !.interval_seconds = n, !.last_run = l] :
             n \in 1..MaxInterval, l \in LastRuns}

\* cron_next_run called again and again at one instant of the clock
CronInit ==
    /\ ServerInit
    /\ \E t0 \in 0..MaxNow : AgentBoot(<<>>, t0, "cron1", "idle", None)

CronNext ==
    \/ \E expr \in CronExprs : cron_call(expr)
    \/ cron_loop

CronSpec ==
    /\ CronInit
    /\ [][CronNext]_vars
    /\ WF_vars(cron_loop)

\* the runner of an agent with one record in its store, with no channel
TriggerInit ==
    /\ ServerInit
    /\ \E rec \in TriggerRecords, t0 \in 0..(MaxNow - 1) :
          AgentBoot(<<rec>>, t0, rec.task_id, "idle", None)

TriggerNext ==
    \/ RunnerWake
    \/ RunnerExecDone
    \/ TickTo(MaxNow)

TriggerSpec == TriggerInit /\ [][TriggerNext]_vars

\* ------------------------------------------------- agent: the task driver
\* the stores the runner of an agent with no channel starts with: up to three
\* records, among them a task to run now and a once task whose scheduled_at
\* does not parse
DriverIds == {"now1", "intv1", "once1", "bad1"}
DriverStores ==
    {<<a>> : a \in DriverIds}
      \cup UNION {{<<a, b>> : b \in DriverIds \ {a}} : a \in DriverIds}
      \cup {<<"now1", "bad1", "intv1">>, <<"intv1", "now1", "bad1">>,
            <<"once1", "now1", "intv1">>}

DriverInit ==
    /\ ServerInit
    /\ \E ids \in DriverStores : AgentStart(ids, ids[1], "idle", None)

DriverNext ==
    \/ RunnerWake
    \/ RunnerExecDone
    \/ Tick

DriverSpec ==
    /\ DriverInit
    /\ [][DriverNext]_vars
    /\ WF_vars(RunnerWake)
    /\ WF_vars(RunnerExecDone)

\* ------------------------------------------------- agent: the pre-run probe
\* the runner and the watcher of an agent with no channel, a server that comes
\* and goes and an operator who cancels tasks on it
ProbeNext ==
    \/ RunnerWake
    \/ RunnerExecDone
    \/ WatcherWake
    \/ WatcherExecDone
    \/ Tick
    \/ SsidChange
    \/ ToggleLocal
    \/ \E id \in AgentTasks \ {"cron1"} : ServerCancel(id)

ProbeInit ==
    /\ ServerInit
    /\ \E f \in AgentTasks \ {"cron1"} : AgentStart(CachedIds, f, "idle", None)

ProbeSpec == ProbeInit /\ [][ProbeNext]_vars

\* ---------------------------------------------------------- agent: claims
\* a cron expression with five fields, a minute and an hour of the day, and a
\* weekday of the week or "*"
well_formed(expr) ==
    /\ Len(expr) >= 5
    /\ int(expr[1]) \in 0..(MinutesPerHour - 1)
    /\ int(expr[2]) \in 0..(HoursPerDay - 1)
    /\ expr[5] = "*" \/ int(expr[5]) \in 0..(DaysPerWeek - 1)

\* the next fire time at or after t that the minute, hour and weekday fields
\* of a well-formed expression give
next_fire(expr, t) ==
    LET today == (t \div DayTicks) * DayTicks
                     + int(expr[2]) * MinutesPerHour + int(expr[1])
        candidate == IF today < t THEN today + DayTicks ELSE today
    IN IF expr[5] = "*" THEN candidate
       ELSE candidate + DayTicks *
              ((int(expr[5]) + DaysPerWeek - weekday(candidate)) % DaysPerWeek)

\* C3: once the cancelled flag of a task_id in the local store is true, it is
\* true after every later store operation for as long as the record exists
C3_CancelledIsTerminal ==
    [][\A id \in AgentTasks :
          (Flagged(store, id) /\ InStore(store', id)) => Flagged(store', id)]_vars

\* C4: once the receiver has processed a cancel_task for a task, and for as
\* long as the record it flagged is in the store, neither the local task
\* runner nor the event watcher starts an execution of that task
C4_NoStartAfterCancelMessage ==
    [][(cancel_seen /\ Flagged(store, focus)) =>
          /\ ~(/\ run_pc' = "exec"
               /\ run_tasks' # run_tasks
               /\ Head(run_tasks').task_id = focus)
          /\ ~(/\ ev_pc' = "exec"
               /\ ev_tasks' # ev_tasks
               /\ Head(ev_tasks').task_id = focus)]_vars

\* C5: when the probe answers cancelled=true for a due task, the runner marks
\* the task cancelled in the store and starts no execution of it, at that
\* tick or later
C5_NoStartAfterProbeCancel ==
    [][/\ (probe_seen' /\ ~probe_seen) => Flagged(store', focus)
       /\ probe_seen =>
             ~(/\ run_pc' = "exec"
               /\ run_tasks' # run_tasks
               /\ Head(run_tasks').task_id = focus)]_vars

\* C6: a task whose execution ended with no task_result sent (channel down or
\* send failed) eventually has its task_result delivered
C6_UnsentResultDelivered == unsent ~> delivered

\* C7: while ws_ref holds no channel and the server is unreachable, a
\* non-cancelled task of the store that becomes due is executed by the runner
C7_DueTaskRunsOffline ==
    LET Offline == ws_ref = None /\ ~reach_local /\ ~reach_vpn
        BecomesDue ==
            \E k \in DOMAIN store :
                /\ store[k].task_id = focus
                /\ ~store[k].cancelled
                /\ IF store[k].trigger_type = "cron"
                   THEN /\ well_formed(store[k].cron_expression)
                        /\ atime = next_fire(store[k].cron_expression, atime)
                        /\ (store[k].last_run = NoTime \/ store[k].last_run < atime)
                   ELSE task_is_due(store[k], atime)
        Running == run_pc = "exec" /\ Head(run_tasks).task_id = focus
    IN (Offline /\ BecomesDue) ~> (Running \/ ~Offline)

\* C8: a channel error clears the last-probe stamp and drops the channel, the
\* next selection probes the endpoints, and with a server that stays reachable
\* on one endpoint the channel is connected again and again
C8_ReconnectsForever ==
    /\ [][(ws_pc # "idle" /\ ws_pc' = "idle")
             => (last_ip_test' = "" /\ ws_ref' = None)]_vars
    /\ [][(ws_pc = "idle" /\ ws_pc' = "connecting" /\ last_ip_test = ""
             /\ (reach_local \/ reach_vpn))
             => (last_ip_test' = "fresh"
                   /\ Reach(server_ip', reach_local, reach_vpn))]_vars
    /\ ((<>[]reach_local) \/ (<>[](~reach_local /\ reach_vpn)))
           => []<>(ws_pc = "connected")

\* connected over the VPN endpoint: the cached local endpoint was dropped
C8_Witness ==
    /\ ws_pc = "connected"
    /\ server_ip = SERVER_IP_VPN
    /\ ~reach_local
    /\ reach_vpn
    /\ last_network = ssid


\* --------------------------------------------------- claims C11 to C20
\* C11: an error raised while handling one inbound agent message leaves the
\* channel in its receive loop and in the registry
C11_HandlerErrorKeepsChannel ==
    [][\A c \in Conns, m \in StorageData :
          handle_storage_detected(c, m)
              => /\ conn_pc'[c] = "loop"
                 /\ agent_connections' = agent_connections]_vars

\* C12: if the process stops during a write of the store, the list read after
\* the restart is the complete previous list or the complete new list
C12_CrashLeavesOldOrNew ==
    [][\A id \in {"intv1", "once1"}, written \in BOOLEAN :
          CrashInUpsert(id, written)
              => store' \in {store, add_or_update_task(store, Payload(id))}]_vars

\* C13: a store file that does not parse is kept: the agent writes task
\* lists to this one file only, so no operation writes over it
C13_CorruptFileKept ==
    [][tasks_file = "torn" => tasks_file' = "torn"]_vars

C15_CronDueAtNextFire ==
    \A k \in DOMAIN store :
        (store[k].trigger_type = "cron" /\ well_formed(store[k].cron_expression))
            => LET fire == next_fire(store[k].cron_expression, atime)
               IN task_is_due(store[k], atime)
                      <=> /\ atime >= fire
                          /\ store[k].last_run = NoTime \/ store[k].last_run < fire

C17_MalformedCronNeverDue ==
    \A k \in DOMAIN store :
        LET expr == store[k].cron_expression
            malformed == \/ Len(expr) < 5
                         \/ int(expr[1]) \notin 0..(MinutesPerHour - 1)
                         \/ int(expr[2]) \notin 0..(HoursPerDay - 1)
        IN (store[k].trigger_type = "cron" /\ malformed)
               => task_is_due(store[k], atime) \in {FALSE}

\* the runner is asleep, the clock has advanced, and the never-run cron task
\* of the store has an hour field out of range
C17_Witness ==
    /\ run_pc = "sleep"
    /\ atime = MaxNow
    /\ Len(store) = 1
    /\ store[1].trigger_type = "cron"
    /\ Len(store[1].cron_expression) = 5
    /\ int(store[1].cron_expression[1]) = 0
    /\ int(store[1].cron_expression[2]) >= HoursPerDay
    /\ store[1].last_run = NoTime
    /\ ~store[1].cancelled

C19_ProbeFailureRunsTask ==
    [][~Reach(ProbeIp(active_ip), reach_local, reach_vpn) =>
          /\ (RunnerWake \/ RunnerExecDone)
                => \A id \in AgentTasks : Flagged(store', id) => Flagged(store, id)
          /\ RunnerWake
                => \A k \in DOMAIN store :
                      (/\ ~store[k].cancelled
                       /\ task_is_due(store[k], atime)
                       /\ \A j \in 1..(k - 1) :
                             store[j].cancelled \/ ~task_is_due(store[j], atime))
                          => /\ run_pc' = "exec"
                             /\ Head(run_tasks') = store[k]]_vars

\* a task cancelled on the server is in execution, not flagged, while the
\* server does not answer
C19_Witness ==
    /\ focus = "once1"
    /\ run_pc = "exec"
    /\ Head(run_tasks).task_id = focus
    /\ focus \in srv_cancelled
    /\ ~Reach(ProbeIp(active_ip), reach_local, reach_vpn)
    /\ ~Flagged(store, focus)

\* C20: while the probe answers cancelled=true for a task, neither the runner
\* nor the event watcher starts an execution of it
C20_ProbeBeforeEveryStart ==
    [][(/\ focus \in srv_cancelled
        /\ Reach(ProbeIp(active_ip), reach_local, reach_vpn))
          => /\ ~(/\ run_pc' = "exec"
                  /\ run_tasks' # run_tasks
                  /\ Head(run_tasks').task_id = focus)
             /\ ~(/\ ev_pc' = "exec"
                  /\ ev_tasks' # ev_tasks
                  /\ Head(ev_tasks').task_id = focus)]_vars

\* --------------------------------------------------- claims C21 to C30
\* C21: whenever the network sample differs from the recorded one in its SSID
\* or in its primary IPv4, the event watcher empties the cached endpoint, and
\* the selection that finds it empty probes the candidates
C21_FingerprintChangeInvalidates ==
    /\ (ssid # last_network \/ local_ip # last_local_ip)
          ~> (active_ip = "" \/ (ssid = last_network /\ local_ip = last_local_ip))
    /\ [][(WsSelect /\ active_ip = "" /\ (reach_local \/ reach_vpn))
             => Reach(server_ip', reach_local, reach_vpn)]_vars

\* C22: endpoint selection returns the cached endpoint, and leaves the state
\* alone, only when the cache is not empty, force is false and the stamp is at
\* most a week old; otherwise the first of local, VPN that answers is
\* returned and cached with a fresh stamp, and when neither answers the cached
\* endpoint (the local one if none) is returned and the state is left alone
C22_SelectionContract ==
    [][LET cached == IF active_ip = None THEN "" ELSE active_ip
           nothing == IF cached # "" THEN cached ELSE SERVER_IP_LOCAL
           kept == active_ip' = active_ip /\ last_ip_test' = last_ip_test
           took(ip) == active_ip' = ip /\ last_ip_test' = "fresh"
       IN /\ WsSelect =>
                IF cached # "" /\ last_ip_test = "fresh"
                THEN server_ip' = cached /\ kept
                ELSE IF reach_local THEN server_ip' = SERVER_IP_LOCAL /\ took(SERVER_IP_LOCAL)
                ELSE IF reach_vpn THEN server_ip' = SERVER_IP_VPN /\ took(SERVER_IP_VPN)
                ELSE server_ip' = nothing /\ kept
          /\ weekly_ip_retest =>
                IF reach_local THEN took(SERVER_IP_LOCAL)
                ELSE IF reach_vpn THEN took(SERVER_IP_VPN)
                ELSE kept]_vars

\* a selection with a stamp older than a week and no endpoint answering has
\* returned the cached VPN endpoint and left the stamp as it was
C22_Witness ==
    /\ ws_pc = "connecting"
    /\ active_ip = SERVER_IP_VPN
    /\ server_ip = SERVER_IP_VPN
    /\ last_ip_test = "old"
    /\ ~reach_local
    /\ ~reach_vpn

\* C23: every channel error leaves was_offline true; the next channel open
\* shows the reconnect notification once and leaves was_offline false; an
\* open with was_offline false shows none
C23_ReconnectNotified ==
    [][/\ (ws_pc # "idle" /\ ws_pc' = "idle") => was_offline'
       /\ (ws_pc # "connected" /\ ws_pc' = "connected")
             => /\ ~was_offline'
                /\ toasts' = IF was_offline /\ toasts < MaxToasts
                              THEN toasts + 1 ELSE toasts]_vars

\* C24: a message that is no JSON, has an unknown type or lacks a required
\* field leaves the receive loop running and the channel open
C24_BadMessageKeepsChannel ==
    [][\A raw \in Malformed :
          receive(raw) => ws_pc' = "connected" /\ ws_ref' = ws_ref]_vars

\* a message of unknown type was dispatched on the channel on which an earlier
\* schedule_task without data had left its empty record
C24_Witness ==
    /\ rx = "unknown"
    /\ ws_pc = "connected"
    /\ ws_ref = "ws"
    /\ InStore(store, None)
    /\ Len(store) = 3

\* C25: every get_processes the receiver gets is answered by a process_list
\* on the channel, unless the channel fails first
C25_ProcessListAnswered ==
    (rx = "get_processes" /\ ws_pc = "connected")
        ~> ("process_list" \in replies \/ ws_pc # "connected")

\* C26: the interval of the sleep a heartbeat starts is the plugged value of
\* the current policy when charging or with no level, and otherwise the value
\* of the step the level is in: 100-80 from 80, 79-50 from 50 to below 80,
\* 49-20 from 20 to below 50, 19-10 from 10 to below 20, 9-0 below 10
C26_IntervalIsStepFunction ==
    [][heartbeat =>
          hb_sleep' =
              CASE charging \/ battery = NoLevel -> policy["plugged"]
                [] ~charging /\ battery >= 800 -> policy["100_80"]
                [] ~charging /\ battery >= 500 /\ battery < 800 -> policy["79_50"]
                [] ~charging /\ battery >= 200 /\ battery < 500 -> policy["49_20"]
                [] ~charging /\ battery >= 100 /\ battery < 200 -> policy["19_10"]
                [] ~charging /\ battery >= 0 /\ battery < 100 -> policy["9_0"]]_vars

\* a heartbeat at 50 percent on battery sleeps the 79-50 value an
\* update_policy has set
C26_Witness ==
    /\ rx = "update_policy"
    /\ battery = 500
    /\ ~charging
    /\ policy["79_50"] \in PolicyValues
    /\ policy["49_20"] = DefaultPolicy["49_20"]
    /\ policy["plugged"] = DefaultPolicy["plugged"]
    /\ hb_sleep = policy["79_50"]

\* the exit code and the task a task_result message reports, wherever the
\* message carries them
reported_code(m) == IF m.data.exit_code # NoCode THEN m.data.exit_code ELSE m.exit_code
reported_task(m) == IF m.data.task_id # None THEN m.data.task_id ELSE m.task_id

\* C27: for every task_result message the server handles, the TaskResult row
\* of the reported task has status success when the reported exit code is 0
\* and failed for every other exit code, the -1 of a timeout included
C27_StatusFromExitCode ==
    [][\A c \in Conns, m \in ResultMessages :
          handle_task_result(c, m) =>
              task_result'[reported_task(m)] =
                  IF reported_code(m) = 0 THEN "success" ELSE "failed"]_vars

\* s[-n:], the trailing n characters of s
tail(s, n) == IF Len(s) <= n THEN s ELSE SubSeq(s, Len(s) - n + 1, Len(s))

\* C28: the stdout of every result is the tail of the captured stdout bounded
\* to the stdout limit and its stderr the tail of the captured stderr bounded
\* to the stderr limit: output over the bound gives a field of exactly the
\* bound, shorter output is carried unchanged
C28_ResultCarriesTail ==
    proc.pc = "done" =>
        /\ result.stdout = tail(proc.out, StdoutLimit)
        /\ result.stderr = tail(proc.err, StderrLimit)

\* C29: an execution that ends in the timeout returns a result with exit code
\* -1 whose stderr contains the timeout notice, and an execution whose
\* subprocess cannot be spawned returns a result with exit code -1
C29_TimeoutAndSpawnFailure ==
    /\ (proc.pc = "done" /\ proc.outcome = "timeout") =>
           /\ result.exit_code = 0 - 1
           /\ occurs_in(TimeoutNotice, result.stderr)
    /\ (proc.pc = "done" /\ proc.outcome = "spawn_error") =>
           result.exit_code = 0 - 1

\* the precedence as stated, applied to what get_disk_info returned
stated_type(d) ==
    IF truthy(d.interface_type) /\ occurs_in(USB, upper(d.interface_type)) THEN "usb"
    ELSE IF truthy(d.model) /\ (\E kw \in SsdKeywords : occurs_in(kw, lower(d.model)))
      THEN "ssd"
    ELSE IF truthy(d.media_type) /\ occurs_in(RemovableMedia, d.media_type) THEN "usb"
    ELSE "hdd"

\* C30 as stated: a USB interface type gives usb whatever the model or media
\* type; otherwise a model containing ssd, solid state or nvme in any case
\* gives ssd; otherwise a media type containing Removable Media gives usb;
\* every other input gives hdd.
C30_StatedPrecedence ==
    storage_type # None => storage_type = stated_type(disk_info)

\* C30 as amended: as stated, except that a media type containing Fixed hard
\* disk gives hdd even when it also contains Removable Media.
C30_PrecedenceWithFixedFirst ==
    storage_type # None =>
        storage_type =
            IF stated_type(disk_info) = "usb"
               /\ ~(truthy(disk_info.interface_type)
                      /\ occurs_in(USB, upper(disk_info.interface_type)))
               /\ occurs_in(FixedHardDisk, disk_info.media_type)
              THEN "hdd"
              ELSE stated_type(disk_info)

\* a drive on a non-USB interface with a plain model whose media type names
\* both kinds has been classified hdd
C30_Witness ==
    /\ storage_type = "hdd"
    /\ truthy(disk_info.media_type)
    /\ occurs_in(RemovableMedia, disk_info.media_type)
    /\ occurs_in(FixedHardDisk, disk_info.media_type)
    /\ disk_info.interface_type = <<"S", "A", "T", "A">>
    /\ disk_info.model = <<"W", "D", " ", "B", "l", "u", "e">>

\* --------------------------------------------------- claims C31 to C40
\* C31: the tag generate_asset_tag returns has three parts, the prefix HD, SS
\* or USB of hdd, ssd or usb (STR otherwise), the date part and four digits,
\* and is the asset_tag of no existing row; the loop ends whenever a tag of
\* the prefix and month is unused
C31_AssetTagUniqueAndFound ==
    /\ [](gen.pc = "returned" =>
             /\ Len(gen.tag) = 3
             /\ gen.tag[1] = gen.prefix
             /\ gen.tag[2] \in DateParts
             /\ Len(gen.tag[3]) = 4
             /\ gen.tag \notin asset_tags)
    /\ [][\A st \in StorageTypes, d \in DateParts, n \in RandomValues :
             generate_asset_tag(st, d, n) =>
                 gen'.prefix = CASE st = "hdd" -> "HD" [] st = "ssd" -> "SS"
                                 [] st = "usb" -> "USB" [] OTHER -> "STR"]_vars
    /\ (gen.pc = "loop"
          /\ \E n \in RandomValues :
                make_tag(gen.prefix, gen.date_part, n) \notin asset_tags)
            ~> gen.pc = "returned"

\* the loop met a taken tag, drew again and returned the one unused tag of an
\* unknown type
C31_Witness ==
    /\ gen.pc = "returned"
    /\ gen.prefix = "STR"
    /\ gen.tag = make_tag("STR", "2611", 1)
    /\ make_tag("STR", "2611", 0) \in asset_tags
    /\ make_tag("HD", "2611", 1) \in asset_tags

\* C32: the messages an execution has sent on its open channel are the
\* task_output of every stdout line in line order with progress 50, then one
\* task_result, then one task_output with an empty line and progress 100, and
\* nothing after it: no line of output follows the task_result, on the
\* timeout path either
C32_OutputThenResultThenFinal ==
    (proc.pc = "done" /\ ws_pc = "connected") =>
        outbox = [i \in 1..Len(proc.out) |-> output_message(proc.out[i])]
                     \o <<result_message, final_message>>

\* the evaluation of the task at time t says it is due
evaluates_due(task, t) == ~task_is_due_raises(task, t) /\ task_is_due(task, t)

\* C33: the local task runner does not wait for the task it executes: no
\* period of the runner passes while one task is executing and another task of
\* the scan is due and has not been started
C33_RunnerDoesNotWait ==
    [][(Tick /\ run_pc = "exec") =>
          \A i \in 2..Len(run_tasks) : ~evaluates_due(run_tasks[i], atime)]_vars

\* the runner starts an execution in this step
runner_starts ==
    /\ RunnerWake \/ RunnerExecDone
    /\ run_pc' = "exec"

\* C36: a task of the store with trigger_type now or once is executed by the
\* runner at most once while it is not upserted again: the runner starts an
\* execution of it only when its record has not run yet
C36_NowAndOnceRunOnce ==
    [][(runner_starts /\ Head(run_tasks').trigger_type \in {"now", "once"}) =>
          \A k \in DOMAIN store :
              store[k].task_id = Head(run_tasks').task_id =>
                  store[k].last_run = NoTime]_vars

\* C37: a record whose evaluation raises does not keep the other tasks of the
\* store from running: a task to run now that is in the store is executed,
\* wherever a raising record stands in the store
C37_RaisingRecordSparesOthers ==
    InStore(store, "now1") ~> (run_pc = "exec" /\ Head(run_tasks).task_id = "now1")

\* C38: a schedule_task message with no data object, or with a data object
\* that has no task_id, leaves the local task store as it was
C38_MalformedScheduleKeepsStore ==
    [][(receive("schedule_no_data") \/ receive("schedule_no_id")) =>
          store' = store]_vars

\* C39: the computation of the next cron fire time ends for every expression,
\* those with five fields and a weekday outside the week included, and with
\* the value the trigger evaluator uses
C39_CronNextRunTerminates ==
    /\ cron_frame.pc = "loop" ~> cron_frame.pc = "returned"
    /\ [](cron_frame.pc = "returned" =>
             cron_frame.value = cron_next_run(cron_frame.expr, atime))

\* the weekday loop has run to the last date for a weekday outside the week
\* and the call has returned None
C39_Witness ==
    /\ cron_frame.pc = "returned"
    /\ cron_frame.target_wd >= DaysPerWeek
    /\ next_day(cron_frame.candidate) > MaxDate
    /\ cron_frame.value = NoTime

\* C40: an agent that has booted, with the server reachable from then on,
\* eventually holds the server's snapshot of scheduled tasks: a check-in that
\* failed at boot is tried again
C40_BootstrapRetried ==
    (ws_pc # "down" /\ reach_local)
        ~> ((\A i \in 1..Len(FileIds) : InStore(store, FileIds[i])) \/ ~reach_local)

\* a channel whose handler has registered and has not yet reached its finally block
live_channel(c, d) == conn_pc[c] \in {"reg_db", "loop"} /\ conn_dev[c] = d

\* C35: when two channels of one device overlap, closing the older one leaves
\* the newer one's registry entry in place and does not mark the device
\* offline: while a device has a live channel, its registry entry is a live
\* channel of that device, and no finally block is on its way to set the
\* device offline
C35_EntryIsLiveChannel ==
    \A d \in Devices :
        (\E c \in Conns : live_channel(c, d)) =>
            /\ Registered(d)
            /\ live_channel(agent_connections[d], d)
            /\ ~\E c \in Conns : conn_pc[c] = "fin_db" /\ conn_dev[c] = d


\* C34: a dashboard connecting or disconnecting while a broadcast is suspended
\* in a send does not make the broadcast fail: the channel whose handler called
\* the broadcast is still open when the send returns
C34_BroadcastSurvivesRegistryChange ==
    [][\A c \in Conns :
          (bcast.pc = "send" /\ bcast.by = c /\ conn_pc[c] = "loop") =>
              conn_pc'[c] = "loop"]_vars

====
